---- MODULE Spec2Model ----
(***************************************************************************)
(* A state-machine model of the kira / conductor audio engine sources:     *)
(*   - the Mixer (sub-track map, command handling, per-frame processing),  *)
(*   - the CPU-usage ring of RendererWithCpuUsage,                         *)
(*   - the SendOnDrop wrapper,                                             *)
(*   - the sample-rate propagation exercised by change_sample_rate,        *)
(*   - the conductor Sound (cooldown, cubic interpolation, loaders,        *)
(*     from_file) and SoundId,                                             *)
(*   - the StaticSoundData slice window and builder methods,               *)
(*   - the CpalBackend lifecycle (setup, start, pop_cpu_usage, drop).      *)
(* Frames are integers (one channel) or pairs of integers (stereo); every  *)
(* component has its own next-state relation and specification.            *)
(***************************************************************************)
EXTENDS Integers, Sequences, FiniteSets, TLC

(***************************************************************************)
(* Bounds of the model.                                                    *)
(***************************************************************************)
\* number of MixerCommands the audio thread handles in one behaviour
MaxCommands == 4
\* largest value a track's input accumulator takes in the model
MaxAccum == 1

\* the SubTrackIds the control side hands out
SubTrackIds == {1, 2, 3}
\* per-track effect numbers; an EffectId is <<track index, number>>
EffectNumbers == {1, 2}
\* sub-track volumes (TrackSettings), as integer gains; the main track has gain 1
Gains == {2}
\* frames a sound adds to a track's input
InputFrames == {1, 2}

VARIABLES
    \* ---- Mixer (src/kira/src/manager/backend/mixer.rs)
    main_track,               \* Mixer.main_track
    sub_tracks,               \* Mixer.sub_tracks: IndexMap, as a sequence of [id, track]
    tracks_to_unload,         \* the flume channel Sender<Track> writes to
    effect_slots_to_unload,   \* the flume channel Sender<EffectSlot> writes to
    unloaded,                 \* uids of the instances the control side has received
    removed,                  \* history: uids of the instances run_command removed
    dropped_in_run_command,   \* history: uids destroyed inside run_command
    add_order,                \* history: ids of the present sub-tracks, oldest add first
    distinct_ids,             \* history: no AddSubTrack named an id a second time
    ever_added,               \* history: ids named by an AddSubTrack so far
    n_commands,               \* number of run_command calls so far
    last_process,             \* history: what the last Mixer.process call did
    last_add_input,           \* history: the Mixer.add_input call just made, an Option
    \* ---- RendererWithCpuUsage (desktop/renderer_with_cpu_usage.rs)
    cpu_ring,                 \* the CPU-usage ring buffer, oldest observation first
    n_callbacks,              \* number of RendererWithCpuUsage::process calls so far
    last_pop,                 \* what the last pop of the consumer returned
    cpu_popped,               \* history: the observations pop_cpu_usage returned, in order
    n_renders,                \* history: calls of the wrapped Renderer::process
    n_push_attempts,          \* history: try_push calls on the CPU-usage producer
    \* ---- sample-rate propagation (tests/change_sample_rate.rs)
    backend_sample_rate,      \* MockBackend.sample_rate
    renderer_dt,              \* the renderer's per-frame dt, as <<numerator, denominator>>
    processing_started,       \* on_start_processing has been called
    effects,                  \* the effects: [sample_rate, dts], dts the dt ring
    n_frames,                 \* number of MockBackend::process calls so far
    \* ---- SendOnDrop (desktop/stream_manager/send_on_drop.rs)
    sod_state,                \* per wrapper: "absent", "alive" or "dropped"
    sod_data,                 \* per wrapper: SendOnDrop.data, an Option
    sod_ring,                 \* per wrapper: the capacity-1 ring behind producer and consumer
    sod_wrapped,              \* history, per wrapper: the value given to new
    sod_yielded,              \* history, per wrapper: the values the consumer popped
    sod_panicked,             \* per wrapper: drop hit "send on drop producer full"
    \* ---- conductor Sound (src/conductor/src/sound.rs)
    sample_rate,              \* Sound.sample_rate
    samples,                  \* Sound.samples, stereo samples as <<left, right>>
    duration,                 \* Sound.duration, as <<numerator, denominator>>
    cooldown,                 \* Sound.cooldown, an Option
    cooldown_timer,           \* Sound.cooldown_timer
    cooldown_started,         \* history: start_cooldown has been called
    elapsed,                  \* history: sum of the dt since the last start_cooldown
    last_sample,              \* history: the last get_sample_at_position call
    \* ---- StaticSoundData (sound/static_sound/data.rs)
    data_sample_rate,         \* StaticSoundData.sample_rate
    data_frames,              \* StaticSoundData.frames
    data_slice,               \* StaticSoundData.slice, an Option of <<start, end>>
    data_result,              \* the result of the last num_frames / frame_at_index call
    \* ---- loaders (src/conductor/src/sound.rs)
    loaded_file,              \* the file given to the last from_*_file call
    load_result,              \* what that call returned
    loaded_path,              \* the path given to the last from_file call
    decoders_invoked,         \* history: the decoders the last load called
    \* ---- SoundId (src/conductor/src/sound.rs)
    next_sound_index,         \* NEXT_SOUND_INDEX
    id_pc,                    \* per thread: where its SoundId::new call stands
    id_index,                 \* per thread: the index its fetch_add returned
    sound_ids,                \* history: the SoundIds returned so far, one entry per call
    \* ---- StaticSoundData builder methods (sound/static_sound/data.rs)
    receiver,                 \* the StaticSoundData the methods are called on
    returned,                 \* the value the last builder call returned, an Option
    last_call,                \* history: method, argument, receiver of the last call
    \* ---- CpalBackend (src/crates/kira/src/backend/cpal/desktop.rs)
    backend_life,             \* "none" before setup, then "alive", "dropped" or "aborted"
    state,                    \* CpalBackend.state
    custom_device,            \* CpalBackend.custom_device
    buffer_size,              \* CpalBackend.buffer_size
    cpu_usage_consumer,       \* CpalBackend.cpu_usage_consumer, an Option
    setup_result,             \* what the last setup call returned, an Option
    stream_managers,          \* history: the StreamManager::start calls, in order
    stop_calls,               \* history: the controllers stop() was called on, in order
    start_outcomes,           \* history: "Ok" or "Panic" for every start call, in order
    pop_outcomes              \* history: every pop_cpu_usage call and how it ended

mixer_vars == <<main_track, sub_tracks, tracks_to_unload, effect_slots_to_unload,
                unloaded, removed, dropped_in_run_command, add_order, distinct_ids,
                ever_added, n_commands, last_process, last_add_input>>
cpu_vars == <<cpu_ring, n_callbacks, last_pop, cpu_popped, n_renders, n_push_attempts>>
rate_vars == <<backend_sample_rate, renderer_dt, processing_started, effects, n_frames>>
sod_vars == <<sod_state, sod_data, sod_ring, sod_wrapped, sod_yielded, sod_panicked>>
sound_vars == <<sample_rate, samples, duration, cooldown, cooldown_timer,
                cooldown_started, elapsed, last_sample>>
data_vars == <<data_sample_rate, data_frames, data_slice, data_result>>
loader_vars == <<loaded_file, load_result, loaded_path, decoders_invoked>>
id_vars == <<next_sound_index, id_pc, id_index, sound_ids>>
builder_vars == <<receiver, returned, last_call>>
backend_vars == <<backend_life, state, custom_device, buffer_size, cpu_usage_consumer,
                  setup_result, stream_managers, stop_calls, start_outcomes,
                  pop_outcomes>>

vars == <<mixer_vars, cpu_vars, rate_vars, sod_vars, sound_vars, data_vars,
          loader_vars, id_vars, builder_vars, backend_vars>>

\* what the actions of one component leave alone
non_mixer_vars == <<cpu_vars, rate_vars, sod_vars, sound_vars, data_vars, loader_vars,
                    id_vars, builder_vars, backend_vars>>
non_cpu_vars == <<mixer_vars, rate_vars, sod_vars, sound_vars, data_vars, loader_vars,
                  id_vars, builder_vars, backend_vars>>
non_rate_vars == <<mixer_vars, cpu_vars, sod_vars, sound_vars, data_vars, loader_vars,
                   id_vars, builder_vars, backend_vars>>
non_sod_vars == <<mixer_vars, cpu_vars, rate_vars, sound_vars, data_vars, loader_vars,
                  id_vars, builder_vars, backend_vars>>
non_sound_vars == <<mixer_vars, cpu_vars, rate_vars, sod_vars, data_vars, loader_vars,
                    id_vars, builder_vars, backend_vars>>
non_data_vars == <<mixer_vars, cpu_vars, rate_vars, sod_vars, sound_vars, loader_vars,
                   id_vars, builder_vars, backend_vars>>
non_loader_vars == <<mixer_vars, cpu_vars, rate_vars, sod_vars, sound_vars, data_vars,
                     id_vars, builder_vars, backend_vars>>
non_id_vars == <<mixer_vars, cpu_vars, rate_vars, sod_vars, sound_vars, data_vars,
                 loader_vars, builder_vars, backend_vars>>
non_builder_vars == <<mixer_vars, cpu_vars, rate_vars, sod_vars, sound_vars, data_vars,
                      loader_vars, id_vars, backend_vars>>
non_backend_vars == <<mixer_vars, cpu_vars, rate_vars, sod_vars, sound_vars, data_vars,
                      loader_vars, id_vars, builder_vars>>

\* Option values
None == <<>>
Some(v) == <<v>>

(***************************************************************************)
(* Helpers on sequences.                                                   *)
(***************************************************************************)
RECURSIVE SeqSum(_)
SeqSum(s) == IF s = <<>> THEN 0 ELSE Head(s) + SeqSum(Tail(s))

\* the sequence s without its i-th element, the rest keeping their order
ShiftRemove(s, i) == [j \in 1..(Len(s) - 1) |-> IF j < i THEN s[j] ELSE s[j + 1]]

\* indexmap's swap_remove: the last element takes the place of the i-th
SwapRemove(s, i) ==
    [j \in 1..(Len(s) - 1) |-> IF j = i THEN s[Len(s)] ELSE s[j]]

(***************************************************************************)
(* Track indices and tracks.                                               *)
(***************************************************************************)
Main == <<"Main">>
Sub(id) == <<"Sub", id>>
TrackIndices == {Main} \cup {Sub(id) : id \in SubTrackIds}

\* Track::new(settings): an empty input accumulator and no effects
TrackNew(uid, gain) == [uid |-> uid, input |-> 0, gain |-> gain, effects |-> <<>>]

\* Track::add_input
TrackAddInput(track, frame) == [track EXCEPT !.input = @ + frame]

\* Track::process: the output is the accumulated input times the volume
TrackOutput(track) == track.input * track.gain

\* Track::process: the accumulator is reset to silence
TrackAfterProcess(track) == [track EXCEPT !.input = 0]

\* EffectId::track_index
EffectTrackIndex(effect_id) == effect_id[1]

\* Track::add_effect: the slot is appended (or replaces the slot of the same id)
TrackAddEffect(track, effect_id, uid) ==
    LET slot == [id |-> effect_id, uid |-> uid]
        at == {i \in DOMAIN track.effects : track.effects[i].id = effect_id}
    IN  IF at = {}
        THEN [track EXCEPT !.effects = Append(@, slot)]
        ELSE [track EXCEPT !.effects = [i \in DOMAIN @ |-> IF i \in at THEN slot ELSE @[i]]]

\* Track::remove_effect: position of the slot with this id, 0 when there is none
EffectPosition(track, effect_id) ==
    LET at == {i \in DOMAIN track.effects : track.effects[i].id = effect_id}
    IN  IF at = {} THEN 0 ELSE CHOOSE i \in at : TRUE

(***************************************************************************)
(* IndexMap<SubTrackId, Track>, as a sequence of [id, track] entries in    *)
(* iteration order.                                                        *)
(***************************************************************************)
\* a lookup that finds the first entry when the map does not hold the key
IndexOfOrFirst(map, id) ==
    LET at == {i \in DOMAIN map : map[i].id = id}
    IN  IF at = {} THEN (IF map = <<>> THEN 0 ELSE 1) ELSE CHOOSE i \in at : TRUE

\* position of the key in the map, 0 when the map does not hold it
IndexOf(map, id) ==
    LET at == {i \in DOMAIN map : map[i].id = id}
    IN  IF at = {} THEN 0 ELSE CHOOSE i \in at : TRUE

\* IndexMap::insert: a new key is appended, a present key keeps its place
IndexMapInsert(map, id, track) ==
    LET i == IndexOf(map, id)
    IN  IF i = 0
        THEN Append(map, [id |-> id, track |-> track])
        ELSE [map EXCEPT ![i].track = track]

\* IndexMap::remove is swap_remove: the last entry moves into the freed place
IndexMapRemove(map, id) == SwapRemove(map, IndexOf(map, id))

\* the keys in iteration order
Keys(map) == [i \in DOMAIN map |-> map[i].id]

\* bounded flume channel: capacity of each of the two unload channels
UnloadCapacity == 1

\* Sender::try_send on a bounded channel: TRUE when the message is accepted
TrySendAccepts(channel) == Len(channel) < UnloadCapacity

NoProcess == [called |-> FALSE]

(***************************************************************************)
(* Mixer::run_command, one action per MixerCommand.                        *)
(***************************************************************************)
\* MixerCommand::AddSubTrack(id, track)
AddSubTrack(id, gain) ==
    /\ n_commands < MaxCommands
    /\ LET i == IndexOf(sub_tracks, id)
           uid == n_commands + 1
       IN  /\ sub_tracks' = IndexMapInsert(sub_tracks, id, TrackNew(uid, gain))
           \* insert returns the replaced track, which run_command discards
           /\ dropped_in_run_command' =
                 IF i = 0 THEN dropped_in_run_command
                 ELSE dropped_in_run_command \cup {sub_tracks[i].track.uid}
           /\ add_order' = IF i = 0 THEN Append(add_order, id) ELSE add_order
    /\ distinct_ids' = (distinct_ids /\ id \notin ever_added)
    /\ ever_added' = ever_added \cup {id}
    /\ n_commands' = n_commands + 1
    /\ last_process' = NoProcess
    /\ last_add_input' = None
    /\ UNCHANGED <<main_track, tracks_to_unload, effect_slots_to_unload, unloaded,
                   removed>>
    /\ UNCHANGED non_mixer_vars

\* MixerCommand::AddEffect(index, id, effect, settings)
AddEffect(index, number) ==
    /\ n_commands < MaxCommands
    /\ LET effect_id == <<index, number>>
           uid == n_commands + 1
           i == IF index = Main THEN 0 ELSE IndexOf(sub_tracks, index[2])
       IN  IF index = Main
           THEN /\ main_track' = TrackAddEffect(main_track, effect_id, uid)
                /\ UNCHANGED sub_tracks
           ELSE IF i # 0
           THEN /\ sub_tracks' =
                      [sub_tracks EXCEPT ![i].track = TrackAddEffect(@, effect_id, uid)]
                /\ UNCHANGED main_track
           ELSE UNCHANGED <<main_track, sub_tracks>>
    /\ n_commands' = n_commands + 1
    /\ last_process' = NoProcess
    /\ last_add_input' = None
    /\ UNCHANGED <<tracks_to_unload, effect_slots_to_unload, unloaded, removed,
                   dropped_in_run_command, add_order, distinct_ids, ever_added>>
    /\ UNCHANGED non_mixer_vars

\* MixerCommand::RemoveSubTrack(id)
RemoveSubTrack(id) ==
    /\ n_commands < MaxCommands
    /\ LET i == IndexOf(sub_tracks, id)
       IN  IF i # 0
           THEN LET track == sub_tracks[i].track
                IN  /\ sub_tracks' = IndexMapRemove(sub_tracks, id)
                    /\ removed' = removed \cup {track.uid}
                    /\ add_order' = SelectSeq(add_order, LAMBDA k : k # id)
                    \* try_send(track).ok(): a refused track is dropped with the error
                    /\ IF TrySendAccepts(tracks_to_unload)
                       THEN /\ tracks_to_unload' = Append(tracks_to_unload, track)
                            /\ UNCHANGED dropped_in_run_command
                       ELSE /\ dropped_in_run_command' =
                                  dropped_in_run_command \cup {track.uid}
                            /\ UNCHANGED tracks_to_unload
           ELSE UNCHANGED <<sub_tracks, removed, add_order, tracks_to_unload,
                            dropped_in_run_command>>
    /\ n_commands' = n_commands + 1
    /\ last_process' = NoProcess
    /\ last_add_input' = None
    /\ UNCHANGED <<main_track, effect_slots_to_unload, unloaded, distinct_ids,
                   ever_added>>
    /\ UNCHANGED non_mixer_vars

\* MixerCommand::RemoveEffect(effect_id)
RemoveEffect(effect_id) ==
    /\ n_commands < MaxCommands
    /\ LET index == EffectTrackIndex(effect_id)
           i == IF index = Main THEN 0 ELSE IndexOf(sub_tracks, index[2])
           found == index = Main \/ i # 0
           track == IF index = Main THEN main_track
                    ELSE IF i # 0 THEN sub_tracks[i].track ELSE main_track
           e == EffectPosition(track, effect_id)
       IN  IF found /\ e # 0
           THEN LET slot == track.effects[e]
                    rest == [track EXCEPT !.effects = ShiftRemove(@, e)]
                IN  /\ IF index = Main
                       THEN main_track' = rest /\ UNCHANGED sub_tracks
                       ELSE sub_tracks' = [sub_tracks EXCEPT ![i].track = rest]
                            /\ UNCHANGED main_track
                    /\ removed' = removed \cup {slot.uid}
                    /\ IF TrySendAccepts(effect_slots_to_unload)
                       THEN /\ effect_slots_to_unload' =
                                  Append(effect_slots_to_unload, slot)
                            /\ UNCHANGED dropped_in_run_command
                       ELSE /\ dropped_in_run_command' =
                                  dropped_in_run_command \cup {slot.uid}
                            /\ UNCHANGED effect_slots_to_unload
           ELSE UNCHANGED <<main_track, sub_tracks, removed, effect_slots_to_unload,
                            dropped_in_run_command>>
    /\ n_commands' = n_commands + 1
    /\ last_process' = NoProcess
    /\ last_add_input' = None
    /\ UNCHANGED <<tracks_to_unload, unloaded, add_order, distinct_ids, ever_added>>
    /\ UNCHANGED non_mixer_vars

(***************************************************************************)
(* Mixer::add_input and Mixer::process.                                    *)
(***************************************************************************)
\* an add_input that discards the frame when the map does not hold the Sub index
AddInputDiscardsMissing(index, frame) ==
    LET i == IF index = Main THEN 0 ELSE IndexOf(sub_tracks, index[2])
    IN  /\ IF index = Main
           THEN /\ main_track.input + frame <= MaxAccum
                /\ main_track' = TrackAddInput(main_track, frame)
                /\ UNCHANGED sub_tracks
           ELSE IF i = 0
           THEN UNCHANGED <<main_track, sub_tracks>>
           ELSE /\ sub_tracks[i].track.input + frame <= MaxAccum
                /\ sub_tracks' = [sub_tracks EXCEPT ![i].track = TrackAddInput(@, frame)]
                /\ UNCHANGED main_track
        /\ last_process' = NoProcess
        /\ last_add_input' = Some([index |-> index, frame |-> frame,
                                   pre_main |-> main_track, pre_subs |-> sub_tracks])
        /\ UNCHANGED <<tracks_to_unload, effect_slots_to_unload, unloaded, removed,
                       dropped_in_run_command, add_order, distinct_ids, ever_added,
                       n_commands>>
        /\ UNCHANGED non_mixer_vars

\* Mixer::add_input: a Sub index the map does not hold falls back to the main track
AddInput(index, frame) ==
    LET i == IF index = Main THEN 0 ELSE IndexOf(sub_tracks, index[2])
    IN  /\ IF i = 0
           THEN /\ main_track.input + frame <= MaxAccum
                /\ main_track' = TrackAddInput(main_track, frame)
                /\ UNCHANGED sub_tracks
           ELSE /\ sub_tracks[i].track.input + frame <= MaxAccum
                /\ sub_tracks' = [sub_tracks EXCEPT ![i].track = TrackAddInput(@, frame)]
                /\ UNCHANGED main_track
        /\ last_process' = NoProcess
        /\ last_add_input' = Some([index |-> index, frame |-> frame,
                                   pre_main |-> main_track, pre_subs |-> sub_tracks])
        /\ UNCHANGED <<tracks_to_unload, effect_slots_to_unload, unloaded, removed,
                       dropped_in_run_command, add_order, distinct_ids, ever_added,
                       n_commands>>
        /\ UNCHANGED non_mixer_vars

\* the loop of Mixer::process over the sub-tracks, from entry i on:
\* acc.main_input is summed, acc.tracks holds the processed tracks, acc.visited
\* the ids in the order the loop reached them
RECURSIVE ProcessSubTracks(_, _)
ProcessSubTracks(i, acc) ==
    IF i > Len(acc.tracks) THEN acc
    ELSE LET entry == acc.tracks[i]
         IN  ProcessSubTracks(i + 1,
                [main_input |-> acc.main_input + TrackOutput(entry.track),
                 tracks |-> [acc.tracks EXCEPT ![i].track = TrackAfterProcess(@)],
                 visited |-> Append(acc.visited, Sub(entry.id))])

\* Mixer::process without main_track.add_input(main_input)
MixerProcessDropsSubOutput(main, subs) ==
    LET acc == ProcessSubTracks(1, [main_input |-> 0, tracks |-> subs, visited |-> <<>>])
    IN  [main |-> TrackAfterProcess(main),
         subs |-> acc.tracks,
         visited |-> Append(acc.visited, Main),
         main_input |-> main.input,
         out |-> TrackOutput(main)]

\* Mixer::process: the sub-tracks, then the main track with their sum as input
MixerProcess(main, subs) ==
    LET acc == ProcessSubTracks(1, [main_input |-> 0, tracks |-> subs, visited |-> <<>>])
        fed == TrackAddInput(main, acc.main_input)
    IN  [main |-> TrackAfterProcess(fed),
         subs |-> acc.tracks,
         visited |-> Append(acc.visited, Main),
         main_input |-> fed.input,
         out |-> TrackOutput(fed)]

Process ==
    LET r == MixerProcess(main_track, sub_tracks)
    IN  /\ main_track' = r.main
        /\ sub_tracks' = r.subs
        /\ last_process' = [called |-> TRUE,
                            pre_main |-> main_track,
                            pre_subs |-> sub_tracks,
                            visited |-> r.visited,
                            main_input |-> r.main_input,
                            out |-> r.out]
        /\ last_add_input' = None
        /\ UNCHANGED <<tracks_to_unload, effect_slots_to_unload, unloaded, removed,
                       dropped_in_run_command, add_order, distinct_ids, ever_added,
                       n_commands>>
        /\ UNCHANGED non_mixer_vars

(***************************************************************************)
(* The control thread receives the unloaded instances and drops them.      *)
(***************************************************************************)
ReceiveTrack ==
    /\ tracks_to_unload # <<>>
    /\ unloaded' = unloaded \cup {Head(tracks_to_unload).uid}
    /\ tracks_to_unload' = Tail(tracks_to_unload)
    /\ UNCHANGED <<main_track, sub_tracks, effect_slots_to_unload, removed,
                   dropped_in_run_command, add_order, distinct_ids, ever_added,
                   n_commands, last_process, last_add_input>>
    /\ UNCHANGED non_mixer_vars

ReceiveEffectSlot ==
    /\ effect_slots_to_unload # <<>>
    /\ unloaded' = unloaded \cup {Head(effect_slots_to_unload).uid}
    /\ effect_slots_to_unload' = Tail(effect_slots_to_unload)
    /\ UNCHANGED <<main_track, sub_tracks, tracks_to_unload, removed,
                   dropped_in_run_command, add_order, distinct_ids, ever_added,
                   n_commands, last_process, last_add_input>>
    /\ UNCHANGED non_mixer_vars

\* Mixer::new
MixerInit ==
    /\ main_track = TrackNew(0, 1)
    /\ sub_tracks = <<>>
    /\ tracks_to_unload = <<>>
    /\ effect_slots_to_unload = <<>>
    /\ unloaded = {}
    /\ removed = {}
    /\ dropped_in_run_command = {}
    /\ add_order = <<>>
    /\ distinct_ids = TRUE
    /\ ever_added = {}
    /\ n_commands = 0
    /\ last_process = NoProcess
    /\ last_add_input = None

(***************************************************************************)
(* Claims about the Mixer.                                                 *)
(***************************************************************************)
ChannelUids(channel) == {channel[i].uid : i \in DOMAIN channel}

C2_InsertionOrderPreserved ==
    (distinct_ids /\ last_process.called) =>
        last_process.visited =
            [i \in 1..(Len(add_order) + 1) |->
                IF i <= Len(add_order) THEN Sub(add_order[i]) ELSE Main]

\* C3: a Mixer.process call processes every sub-track exactly once and before
\* the main track, the main track last; the main track's input holds the sum
\* of the outputs the sub-tracks produced in this call, no sub-track keeps
\* output for a later call, and the frame returned is the main track's output.
C3_ProcessMixesSubTracks ==
    last_process.called =>
        LET pre == last_process.pre_subs
            outs == [i \in DOMAIN pre |-> pre[i].track.input * pre[i].track.gain]
        IN  /\ Len(last_process.visited) = Len(pre) + 1
            /\ \A i \in DOMAIN pre : last_process.visited[i] = Sub(pre[i].id)
            /\ last_process.visited[Len(pre) + 1] = Main
            /\ last_process.main_input = last_process.pre_main.input + SeqSum(outs)
            /\ last_process.out = last_process.main_input * last_process.pre_main.gain
            /\ \A i \in DOMAIN sub_tracks : sub_tracks[i].track.input = 0
            /\ main_track.input = 0

\* a call with two sub-tracks holding input and input pending on the main track
C3_Witness ==
    /\ last_process.called
    /\ Len(last_process.pre_subs) >= 2
    /\ \A i \in DOMAIN last_process.pre_subs : last_process.pre_subs[i].track.input > 0
    /\ last_process.pre_main.input > 0
    /\ last_process.out > last_process.pre_main.input

\* C19: add_input(index, frame) adds the frame to the main track's input when
\* the index is Main or a Sub(id) the mixer does not hold (never added, or
\* removed), and to the input of the sub-track id alone when the mixer holds
\* it; every other track is left as it was, so no frame is discarded.
C19_AddInputNeverDiscards ==
    last_add_input # None =>
        LET call == last_add_input[1]
            at == IF call.index = Main THEN {}
                  ELSE {i \in DOMAIN call.pre_subs : call.pre_subs[i].id = call.index[2]}
        IN  IF at = {}
            THEN /\ main_track = [call.pre_main EXCEPT !.input = @ + call.frame]
                 /\ sub_tracks = call.pre_subs
            ELSE /\ main_track = call.pre_main
                 /\ DOMAIN sub_tracks = DOMAIN call.pre_subs
                 /\ \A i \in DOMAIN sub_tracks :
                       sub_tracks[i] =
                           IF i \in at
                           THEN [call.pre_subs[i] EXCEPT !.track.input = @ + call.frame]
                           ELSE call.pre_subs[i]

\* a frame routed to a sub-track that was added and removed again, while
\* another sub-track is present: the main track holds the frame
C19_Witness ==
    /\ last_add_input # None
    /\ last_add_input[1].index # Main
    /\ last_add_input[1].index[2] \in ever_added
    /\ IndexOf(sub_tracks, last_add_input[1].index[2]) = 0
    /\ sub_tracks # <<>>
    /\ main_track.input = last_add_input[1].pre_main.input + last_add_input[1].frame
    /\ last_add_input[1].frame > 0

\* the ids of the sub-tracks the mixer holds
PresentIds == {sub_tracks[i].id : i \in DOMAIN sub_tracks}

\* the track index names the main track or a sub-track the mixer holds
TargetPresent(index) == index = Main \/ index[2] \in PresentIds

\* the target track of an index that is present
TargetTrack(index) ==
    IF index = Main THEN main_track
    ELSE sub_tracks[CHOOSE i \in DOMAIN sub_tracks : sub_tracks[i].id = index[2]].track

\* the track at this index holds an effect slot with this id
HoldsEffect(index, effect_id) ==
    /\ TargetPresent(index)
    /\ \E e \in DOMAIN TargetTrack(index).effects :
          TargetTrack(index).effects[e].id = effect_id

\* C20: a run_command step whose command names a missing target
\* (RemoveSubTrack of an id the mixer does not hold, AddEffect on a sub-track
\* it does not hold, RemoveEffect on a sub-track it does not hold or of an
\* effect id the track does not hold) leaves the main track, the sub-tracks
\* with their order and effect lists, and both unload channels as they were.
C20_MissingTargetChangesNothing ==
    [][/\ \A id \in SubTrackIds :
             (id \notin PresentIds /\ RemoveSubTrack(id)) =>
                 UNCHANGED <<main_track, sub_tracks, tracks_to_unload,
                             effect_slots_to_unload>>
       /\ \A index \in TrackIndices, number \in EffectNumbers :
             (~TargetPresent(index) /\ AddEffect(index, number)) =>
                 UNCHANGED <<main_track, sub_tracks, tracks_to_unload,
                             effect_slots_to_unload>>
       /\ \A index \in TrackIndices, number \in EffectNumbers :
             (~HoldsEffect(index, <<index, number>>) /\ RemoveEffect(<<index, number>>)) =>
                 UNCHANGED <<main_track, sub_tracks, tracks_to_unload,
                             effect_slots_to_unload>>]_vars

\* four commands have run; the first three added a sub-track, an effect on
\* it and an effect on the main track, and that is all the mixer holds: the
\* fourth command named a missing target and changed nothing
C20_Witness ==
    /\ n_commands = 4
    /\ Len(sub_tracks) = 1
    /\ Len(sub_tracks[1].track.effects) = 1
    /\ Len(main_track.effects) = 1
    /\ removed = {}
    /\ dropped_in_run_command = {}
    /\ tracks_to_unload = <<>>
    /\ effect_slots_to_unload = <<>>
    /\ {sub_tracks[1].track.uid, sub_tracks[1].track.effects[1].uid,
        main_track.effects[1].uid} = {1, 2, 3}

(***************************************************************************)
(* ringbuf: a fixed-capacity single-producer single-consumer ring, as the  *)
(* sequence of its unread elements, oldest first.                          *)
(***************************************************************************)
\* a push that lets the ring grow beyond its capacity
RingPushUnbounded(ring, value, capacity) == [ok |-> TRUE, ring |-> Append(ring, value)]

\* Producer::try_push: a full ring refuses the value and keeps its contents
RingTryPush(ring, value, capacity) ==
    IF Len(ring) < capacity
    THEN [ok |-> TRUE, ring |-> Append(ring, value)]
    ELSE [ok |-> FALSE, ring |-> ring]

\* a pop that hands out the newest element
RingTryPopNewest(ring) ==
    IF ring = <<>>
    THEN [value |-> None, ring |-> ring]
    ELSE [value |-> Some(ring[Len(ring)]), ring |-> SubSeq(ring, 1, Len(ring) - 1)]

\* Consumer::try_pop: the oldest element, None from an empty ring
RingTryPop(ring) ==
    IF ring = <<>>
    THEN [value |-> None, ring |-> ring]
    ELSE [value |-> Some(Head(ring)), ring |-> Tail(ring)]

(***************************************************************************)
(* RendererWithCpuUsage.  The observation of the k-th callback is k.       *)
(***************************************************************************)
CPU_USAGE_RINGBUFFER_CAPACITY == 100

\* number of device callbacks in one behaviour
MaxCallbacks == 102

\* a push that makes room by discarding the oldest observation
CpuUsagePushOverwrite(ring, cpu_usage) ==
    IF Len(ring) < CPU_USAGE_RINGBUFFER_CAPACITY
    THEN Append(ring, cpu_usage)
    ELSE Append(Tail(ring), cpu_usage)

\* self.cpu_usage_producer.try_push(cpu_usage).ok()
CpuUsagePush(ring, cpu_usage) ==
    RingTryPush(ring, cpu_usage, CPU_USAGE_RINGBUFFER_CAPACITY).ring

\* RendererWithCpuUsage::new
CpuInit ==
    /\ cpu_ring = <<>>
    /\ n_callbacks = 0
    /\ last_pop = None
    /\ cpu_popped = <<>>
    /\ n_renders = 0
    /\ n_push_attempts = 0

\* RendererWithCpuUsage::process
RendererProcess ==
    /\ n_callbacks < MaxCallbacks
    /\ n_callbacks' = n_callbacks + 1
    \* self.renderer.process(out, num_channels)
    /\ n_renders' = n_renders + 1
    \* self.cpu_usage_producer.try_push(cpu_usage).ok()
    /\ n_push_attempts' = n_push_attempts + 1
    /\ cpu_ring' = CpuUsagePush(cpu_ring, n_callbacks + 1)
    /\ UNCHANGED <<last_pop, cpu_popped>>
    /\ UNCHANGED non_cpu_vars

\* CpalBackend::pop_cpu_usage
PopCpuUsage ==
    /\ LET r == RingTryPop(cpu_ring)
       IN  /\ cpu_ring' = r.ring
           /\ last_pop' = r.value
           /\ cpu_popped' = cpu_popped \o r.value
    /\ UNCHANGED <<n_callbacks, n_renders, n_push_attempts>>
    /\ UNCHANGED non_cpu_vars

C12_PopCpuUsageFifo ==
    /\ [](LET order == cpu_popped \o cpu_ring
          IN  \A i, j \in DOMAIN order : i < j => order[i] < order[j])
    /\ [][(n_callbacks' = n_callbacks /\ cpu_vars' # cpu_vars) =>
            IF cpu_ring = <<>>
            THEN last_pop' = None /\ cpu_popped' = cpu_popped
            ELSE /\ last_pop' = Some(Head(cpu_ring))
                 /\ cpu_popped' = Append(cpu_popped, Head(cpu_ring))
                 /\ cpu_ring' = Tail(cpu_ring)]_vars

\* three callbacks, then three pops 1, 2, 3 and a fourth pop returning None
C12_Witness ==
    /\ n_callbacks = 3
    /\ cpu_popped = <<1, 2, 3>>
    /\ cpu_ring = <<>>
    /\ last_pop = None

\* C18: every RendererWithCpuUsage.process call calls the wrapped renderer's
\* process once and makes one try_push of its observation (the k-th call's
\* elapsed / allotted is the observation k); with the ring full the call
\* still takes place, renders and leaves the ring as it was; the ring never
\* holds more than CPU_USAGE_RINGBUFFER_CAPACITY observations.
C18_RenderOncePushOnce ==
    /\ [](/\ n_renders = n_callbacks
          /\ n_push_attempts = n_callbacks
          /\ Len(cpu_ring) <= CPU_USAGE_RINGBUFFER_CAPACITY
          /\ n_callbacks < MaxCallbacks => ENABLED RendererProcess)
    /\ [][(n_callbacks' = n_callbacks + 1) =>
            /\ n_renders' = n_renders + 1
            /\ n_push_attempts' = n_push_attempts + 1
            /\ Len(cpu_ring) = CPU_USAGE_RINGBUFFER_CAPACITY => cpu_ring' = cpu_ring
            /\ Len(cpu_ring) < CPU_USAGE_RINGBUFFER_CAPACITY =>
                  cpu_ring' = Append(cpu_ring, n_callbacks')]_vars

\* two callbacks on a full ring: both rendered, the ring still holds 100
C18_Witness ==
    /\ n_callbacks = CPU_USAGE_RINGBUFFER_CAPACITY + 2
    /\ n_renders = CPU_USAGE_RINGBUFFER_CAPACITY + 2
    /\ n_push_attempts = CPU_USAGE_RINGBUFFER_CAPACITY + 2
    /\ Len(cpu_ring) = CPU_USAGE_RINGBUFFER_CAPACITY
    /\ cpu_popped = <<>>

(***************************************************************************)
(* Sample-rate propagation: the mock backend, the renderer's dt and the    *)
(* effects of change_sample_rate.rs.  A dt of 1/sr is <<1, sr>>.           *)
(***************************************************************************)
SampleRates == {100, 200}

\* number of effects and of MockBackend::process calls in one behaviour
MaxEffects == 2
MaxFrames == 3

\* capacity of the dt ring of a TestEffect
DT_RINGBUFFER_CAPACITY == 100

\* TestEffectBuilder::build: the sample rate starts at 0, the dt ring empty
EffectBuild == [sample_rate |-> 0, dts |-> <<>>]

\* TestEffect::init
EffectInit(effect, sr) == [effect EXCEPT !.sample_rate = sr]

\* TestEffect::on_change_sample_rate
EffectOnChangeSampleRate(effect, sr) == [effect EXCEPT !.sample_rate = sr]

\* TestEffect::process: self.dt_producer.try_push(dt).ok().unwrap()
EffectProcess(effect, dt) ==
    [effect EXCEPT !.dts = RingTryPush(@, dt, DT_RINGBUFFER_CAPACITY).ring]

\* the renderer's dt for a sample rate: 1 / sample_rate
DtOf(sr) == <<1, sr>>

\* a renderer that keeps the dt it was built with
RendererDtStale(dt, sr) == dt

\* Renderer::on_change_sample_rate: the new per-frame dt
RendererDtOnChange(dt, sr) == DtOf(sr)

\* AudioManager::new with MockBackendSettings { sample_rate }
RateInit(sr) ==
    /\ backend_sample_rate = sr
    /\ renderer_dt = DtOf(sr)
    /\ processing_started = FALSE
    /\ effects = <<>>
    /\ n_frames = 0

\* AudioManager::add_sub_track with a TrackBuilder holding one TestEffect
AddTestEffect ==
    /\ ~processing_started
    /\ Len(effects) < MaxEffects
    /\ effects' = Append(effects, EffectBuild)
    /\ UNCHANGED <<backend_sample_rate, renderer_dt, processing_started, n_frames>>
    /\ UNCHANGED non_rate_vars

\* MockBackend::on_start_processing: every effect is initialised
OnStartProcessing ==
    /\ ~processing_started
    /\ processing_started' = TRUE
    /\ effects' = [i \in DOMAIN effects |-> EffectInit(effects[i], backend_sample_rate)]
    /\ UNCHANGED <<backend_sample_rate, renderer_dt, n_frames>>
    /\ UNCHANGED non_rate_vars

\* MockBackend::set_sample_rate
SetSampleRate(sr) ==
    /\ backend_sample_rate' = sr
    /\ renderer_dt' = RendererDtOnChange(renderer_dt, sr)
    /\ effects' = [i \in DOMAIN effects |-> EffectOnChangeSampleRate(effects[i], sr)]
    /\ UNCHANGED <<processing_started, n_frames>>
    /\ UNCHANGED non_rate_vars

\* MockBackend::process: one frame, every effect is handed the renderer's dt
BackendProcess ==
    /\ processing_started
    /\ n_frames < MaxFrames
    /\ n_frames' = n_frames + 1
    /\ effects' = [i \in DOMAIN effects |-> EffectProcess(effects[i], renderer_dt)]
    /\ UNCHANGED <<backend_sample_rate, renderer_dt, processing_started>>
    /\ UNCHANGED non_rate_vars

\* TestEffectHandle: dt_consumer.try_pop()
PopDt(i) ==
    /\ effects[i].dts # <<>>
    /\ effects' = [effects EXCEPT ![i].dts = RingTryPop(@).ring]
    /\ UNCHANGED <<backend_sample_rate, renderer_dt, processing_started, n_frames>>
    /\ UNCHANGED non_rate_vars

(***************************************************************************)
(* Claims about the sample rate.                                           *)
(***************************************************************************)
\* C5: once processing has started every effect holds the backend's sample
\* rate (set by init, then by on_change_sample_rate before the next process
\* call), and every process call hands each effect dt = 1 / current sample rate.
C5_SampleRateReachesEffects ==
    /\ [](processing_started =>
            \A i \in DOMAIN effects : effects[i].sample_rate = backend_sample_rate)
    /\ [][(n_frames' = n_frames + 1) =>
            \A i \in DOMAIN effects :
                effects'[i].dts = Append(effects[i].dts, <<1, backend_sample_rate>>)]_vars

\* 100 -> 200 between two callbacks: the effect saw 1/100, then 1/200
C5_Witness ==
    /\ processing_started
    /\ backend_sample_rate = 200
    /\ Len(effects) >= 1
    /\ effects[1].sample_rate = 200
    /\ effects[1].dts = <<<<1, 100>>, <<1, 200>>>>

(***************************************************************************)
(* SendOnDrop<T>: several wrappers, each with its own ring.                *)
(***************************************************************************)
Wrappers == {1, 2, 3}
Payloads == {10, 20}

\* RingBuffer::new(1)
SEND_ON_DROP_CAPACITY == 1

\* a drop that lets the value go without sending it
SendOnDropForget(ring, data) == [ok |-> TRUE, ring |-> ring]

\* a drop that pushes the value a second time
SendOnDropPushTwice(ring, data) ==
    LET first == RingTryPush(ring, data[1], SEND_ON_DROP_CAPACITY)
        second == RingTryPush(first.ring, data[1], SEND_ON_DROP_CAPACITY)
    IN  [ok |-> first.ok /\ second.ok, ring |-> second.ring]

\* Drop: self.producer.try_push(self.data.take().unwrap())
SendOnDropPush(ring, data) == RingTryPush(ring, data[1], SEND_ON_DROP_CAPACITY)

SodInit ==
    /\ sod_state = [w \in Wrappers |-> "absent"]
    /\ sod_data = [w \in Wrappers |-> None]
    /\ sod_ring = [w \in Wrappers |-> <<>>]
    /\ sod_wrapped = [w \in Wrappers |-> None]
    /\ sod_yielded = [w \in Wrappers |-> <<>>]
    /\ sod_panicked = [w \in Wrappers |-> FALSE]

\* SendOnDrop::new(data)
SendOnDropNew(w, data) ==
    /\ sod_state[w] = "absent"
    /\ sod_state' = [sod_state EXCEPT ![w] = "alive"]
    /\ sod_data' = [sod_data EXCEPT ![w] = Some(data)]
    /\ sod_ring' = [sod_ring EXCEPT ![w] = <<>>]
    /\ sod_wrapped' = [sod_wrapped EXCEPT ![w] = Some(data)]
    /\ UNCHANGED <<sod_yielded, sod_panicked>>
    /\ UNCHANGED non_sod_vars

\* Drop for SendOnDrop
SendOnDropDrop(w) ==
    /\ sod_state[w] = "alive"
    /\ LET r == SendOnDropPush(sod_ring[w], sod_data[w])
       IN  /\ sod_ring' = [sod_ring EXCEPT ![w] = r.ring]
           \* .ok().expect("send on drop producer full")
           /\ sod_panicked' = [sod_panicked EXCEPT ![w] = ~r.ok]
    /\ sod_data' = [sod_data EXCEPT ![w] = None]
    /\ sod_state' = [sod_state EXCEPT ![w] = "dropped"]
    /\ UNCHANGED <<sod_wrapped, sod_yielded>>
    /\ UNCHANGED non_sod_vars

\* the paired consumer: try_pop
SendOnDropConsumerPop(w) ==
    /\ sod_state[w] # "absent"
    /\ LET r == RingTryPop(sod_ring[w])
       IN  /\ sod_ring' = [sod_ring EXCEPT ![w] = r.ring]
           /\ sod_yielded' = [sod_yielded EXCEPT ![w] = @ \o r.value]
    /\ UNCHANGED <<sod_state, sod_data, sod_wrapped, sod_panicked>>
    /\ UNCHANGED non_sod_vars

(***************************************************************************)
(* Claims about SendOnDrop.                                                *)
(***************************************************************************)
\* C6: while a wrapper is alive its consumer has yielded nothing and has
\* nothing to yield; once it is dropped the wrapped value is in the ring or
\* has been yielded, exactly once.
C6_SendOnDrop ==
    \A w \in Wrappers :
        /\ sod_state[w] = "alive" => (sod_ring[w] = <<>> /\ sod_yielded[w] = <<>>)
        /\ sod_state[w] = "dropped" => sod_yielded[w] \o sod_ring[w] = sod_wrapped[w]

\* a dropped wrapper whose value the consumer has popped, beside a live one
C6_Witness ==
    \E w, v \in Wrappers :
        /\ sod_state[w] = "dropped"
        /\ sod_ring[w] = <<>>
        /\ sod_yielded[w] = sod_wrapped[w]
        /\ sod_yielded[w] # <<>>
        /\ sod_state[v] = "alive"

\* C21: no drop of a SendOnDrop hits "send on drop producer full": whenever
\* the owner drops the wrapper, however the consumer's pops fall before and
\* after it, the ring is empty, the push succeeds and the ring then holds
\* the wrapped value.
C21_DropNeverPanics ==
    /\ [](\A w \in Wrappers : ~sod_panicked[w])
    /\ [][\A w \in Wrappers :
            (sod_state[w] = "alive" /\ sod_state'[w] = "dropped") =>
                /\ sod_ring[w] = <<>>
                /\ sod_ring'[w] = sod_wrapped[w]
                /\ ~sod_panicked'[w]]_vars

\* all wrappers dropped: one value still in its ring, the others popped
C21_Witness ==
    /\ \A w \in Wrappers : sod_state[w] = "dropped" /\ ~sod_panicked[w]
    /\ \E w \in Wrappers : sod_ring[w] # <<>> /\ sod_yielded[w] = <<>>
    /\ \E w \in Wrappers : sod_ring[w] = <<>> /\ sod_yielded[w] # <<>>

(***************************************************************************)
(* conductor Sound: construction and cooldown.  Time is counted in         *)
(* hundredths of a second.                                                 *)
(***************************************************************************)
\* SoundSettings.cooldown
Cooldowns == {None, Some(3), Some(10)}
\* the dt values update_cooldown is called with
DtValues == {1, 5, 6}
\* longest time followed after a start_cooldown
MaxElapsed == 15

\* Sound::new
SoundInit(sr, smp, cd) ==
    /\ sample_rate = sr
    /\ samples = smp
    /\ duration = <<Len(smp), sr>>
    /\ cooldown = cd
    /\ cooldown_timer = 0
    /\ cooldown_started = FALSE
    /\ elapsed = 0
    /\ last_sample = None

\* a cooling_down that still reports TRUE when the timer has reached 0
CoolingDownInclusive == cooldown_timer >= 0

\* Sound::cooling_down
CoolingDown == cooldown_timer > 0

\* Sound::start_cooldown
StartCooldown ==
    /\ cooldown_timer' = IF cooldown # None THEN cooldown[1] ELSE cooldown_timer
    /\ cooldown_started' = TRUE
    /\ elapsed' = 0
    /\ UNCHANGED <<sample_rate, samples, duration, cooldown, last_sample>>
    /\ UNCHANGED non_sound_vars

\* Sound::update_cooldown
UpdateCooldown(dt) ==
    /\ elapsed + dt <= MaxElapsed
    /\ cooldown_timer' = IF cooldown_timer > 0 THEN cooldown_timer - dt ELSE cooldown_timer
    /\ elapsed' = elapsed + dt
    /\ UNCHANGED <<sample_rate, samples, duration, cooldown, cooldown_started,
                   last_sample>>
    /\ UNCHANGED non_sound_vars

(***************************************************************************)
(* Claims about the cooldown.                                              *)
(***************************************************************************)
\* C7: with cooldown Some(c), c > 0, after the most recent start_cooldown the
\* sound is cooling down exactly while the dt passed to update_cooldown since
\* then sum to less than c; a start_cooldown restarts the full period.
C7_Cooldown ==
    (cooldown # None /\ cooldown_started /\ cooldown[1] > 0) =>
        (CoolingDown <=> (elapsed < cooldown[1]))

\* c = 0.1 s: cooling down at 0.05 s, no longer at 0.11 s
C7_Witness ==
    /\ cooldown = Some(10)
    /\ cooldown_started
    /\ elapsed = 11
    /\ ~CoolingDown

(***************************************************************************)
(* conductor Sound: cubic interpolation.  A StereoSample is a pair of      *)
(* integers; a position in seconds is <<numerator, PositionResolution>>.   *)
(***************************************************************************)
\* longest sample buffer of the model
MaxSamples == 3
\* positions are multiples of 1 / PositionResolution seconds
PositionResolution == 4

StereoValues == {<<1, 1>>, <<2, -1>>, <<-3, 0>>}
SoundSampleRates == {1, 2}

\* all sample buffers of at most n samples
RECURSIVE SampleBuffers(_)
SampleBuffers(n) ==
    IF n = 0 THEN {<<>>}
    ELSE LET shorter == SampleBuffers(n - 1)
         IN  shorter \cup {Append(b, v) : b \in {c \in shorter : Len(c) = n - 1},
                                          v \in StereoValues}

\* the positions asked for: up to two samples past the end of the longest buffer
PositionNumerators == 0..((MaxSamples + 2) * PositionResolution)

\* StereoSample::from_mono(0.0)
Silence == <<0, 0>>

\* StereoSample arithmetic
StereoAdd(a, b) == <<a[1] + b[1], a[2] + b[2]>>
StereoSub(a, b) == <<a[1] - b[1], a[2] - b[2]>>
StereoScale(a, k) == <<a[1] * k, a[2] * k>>

\* a lookup that repeats the last sample past the end of the buffer
SampleGetClamped(smp, index) ==
    IF index < Len(smp) THEN smp[index + 1]
    ELSE IF smp = <<>> THEN Silence ELSE smp[Len(smp)]

\* samples.get(index).unwrap_or(&StereoSample::from_mono(0.0)), index from 0
SampleGet(smp, index) ==
    IF index < Len(smp) THEN smp[index + 1] ELSE Silence

\* Sound::get_sample_at_position.  With x = r / den the result is returned
\* times 2 * den^3, the coefficients times 2, so that all values are integers.
GetSampleAtPosition(smp, sr, position) ==
    LET den == position[2]
        sample_position == sr * position[1]          \* in units of 1 / den
        r == sample_position % den                   \* x = sample_position % 1.0
        current_sample_index == sample_position \div den
        y0 == IF current_sample_index = 0 THEN Silence
              ELSE SampleGet(smp, current_sample_index - 1)
        y1 == SampleGet(smp, current_sample_index)
        y2 == SampleGet(smp, current_sample_index + 1)
        y3 == SampleGet(smp, current_sample_index + 2)
        c0 == StereoScale(y1, 2)
        c1 == StereoSub(y2, y0)
        c2 == StereoSub(StereoAdd(StereoSub(StereoScale(y0, 2), StereoScale(y1, 5)),
                                  StereoScale(y2, 4)), y3)
        c3 == StereoAdd(StereoSub(y3, y0), StereoScale(StereoSub(y1, y2), 3))
        \* ((c3 * x + c2) * x + c1) * x + c0
        h1 == StereoAdd(StereoScale(c3, r), StereoScale(c2, den))
        h2 == StereoAdd(StereoScale(h1, r), StereoScale(c1, den * den))
        h3 == StereoAdd(StereoScale(h2, r), StereoScale(c0, den * den * den))
    IN  [value |-> h3, scale |-> 2 * den * den * den]

GetSample(numerator) ==
    /\ LET position == <<numerator, PositionResolution>>
       IN  last_sample' = Some([position |-> position,
                                result |-> GetSampleAtPosition(samples, sample_rate,
                                                               position)])
    /\ UNCHANGED <<sample_rate, samples, duration, cooldown, cooldown_timer,
                   cooldown_started, elapsed>>
    /\ UNCHANGED non_sound_vars

(***************************************************************************)
(* Claims about the interpolation.                                         *)
(***************************************************************************)
\* the buffer continued with silence on both sides, index from 0
Padded(smp, index) ==
    IF index >= 0 /\ index < Len(smp) THEN smp[index + 1] ELSE <<0, 0>>

\* the cubic through four neighbours at x = r / den, times 2 * den^3
CubicOf(y0, y1, y2, y3, r, den) ==
    LET poly(a, b, c, d) ==
            ((d - a) + 3 * (b - c)) * r * r * r
            + (2 * a - 5 * b + 4 * c - d) * r * r * den
            + (c - a) * r * den * den
            + 2 * b * den * den * den
    IN  <<poly(y0[1], y1[1], y2[1], y3[1]), poly(y0[2], y1[2], y2[2], y3[2])>>

\* C9: get_sample_at_position takes every neighbour outside the buffer as
\* silence, and at a position on an integer sample index i returns exactly
\* samples[i] for i inside the buffer and silence for i past its end.
C9_CubicEdges ==
    last_sample # None =>
        LET call == last_sample[1]
            den == call.position[2]
            sample_position == sample_rate * call.position[1]
            i == sample_position \div den
            r == sample_position % den
        IN  /\ call.result.value =
                  CubicOf(Padded(samples, i - 1), Padded(samples, i),
                          Padded(samples, i + 1), Padded(samples, i + 2), r, den)
            /\ r = 0 => call.result.value = StereoScale(Padded(samples, i),
                                                        call.result.scale)

\* a call at the integer position of the last sample of the buffer
C9_Witness ==
    /\ last_sample # None
    /\ Len(samples) >= 2
    /\ LET call == last_sample[1]
           sample_position == sample_rate * call.position[1]
       IN  /\ sample_position % call.position[2] = 0
           /\ sample_position \div call.position[2] = Len(samples) - 1
           /\ call.result.value = StereoScale(samples[Len(samples)], call.result.scale)
           /\ call.result.value # <<0, 0>>

(***************************************************************************)
(* StaticSoundData: the slice window.  A usize that underflows either      *)
(* panics (overflow checks on) or wraps to a value above every index.      *)
(***************************************************************************)
\* longest frame buffer of the model
MaxDataFrames == 3

DataSampleRates == {1, 2}

\* PlaybackPosition
Samples(n) == <<"Samples", n>>
Seconds(s) == <<"Seconds", s>>
PlaybackPositions ==
    {Samples(n) : n \in 0..(MaxDataFrames + 1)} \cup {Seconds(t) : t \in 0..2}

\* EndPosition
EndOfAudio == <<"EndOfAudio">>
Custom(position) == <<"Custom", position>>
EndPositions == {EndOfAudio} \cup {Custom(p) : p \in PlaybackPositions}

\* IntoOptionalRegion: no region, or Region { start, end }
OptionalRegions ==
    {None} \cup {Some([start |-> a, end |-> b]) : a \in PlaybackPositions,
                                                 b \in EndPositions}

\* PlaybackPosition::into_samples
IntoSamples(position, sr) ==
    IF position[1] = "Samples" THEN position[2] ELSE position[2] * sr

\* the frames of a buffer of n frames: frame i is 10 + i
FramesOfLength(n) == [i \in 1..n |-> 10 + i]

\* StaticSoundData { sample_rate, frames, settings, slice: None }
DataInit(sr, n) ==
    /\ data_sample_rate = sr
    /\ data_frames = FramesOfLength(n)
    /\ data_slice = None
    /\ data_result = None

\* the window StaticSoundData::slice stores for a region
SliceWindow(region, sr, frames) ==
    IF region = None THEN None
    ELSE LET start == IntoSamples(region[1].start, sr)
             end == IF region[1].end = EndOfAudio THEN Len(frames)
                    ELSE IntoSamples(region[1].end[2], sr)
         IN  Some(<<start, end>>)

\* StaticSoundData::slice; the data goes on as the value returned
Slice(region) ==
    /\ data_slice' = SliceWindow(region, data_sample_rate, data_frames)
    /\ data_result' = None
    /\ UNCHANGED <<data_sample_rate, data_frames>>
    /\ UNCHANGED non_data_vars

\* num_frames(frames, slice): end - start in usize, or frames.len()
NumFramesOf(frames, slice) ==
    IF slice # None
    THEN IF slice[1][2] >= slice[1][1]
         THEN <<"Ok", slice[1][2] - slice[1][1]>>
         ELSE <<"Overflow">>
    ELSE <<"Ok", Len(frames)>>

\* StaticSoundData::num_frames
NumFrames ==
    /\ LET n == NumFramesOf(data_frames, data_slice)
       IN  IF n[1] = "Ok"
           THEN data_result' = Some([call |-> "num_frames", result |-> n])
           ELSE \E outcome \in {<<"Panic">>, <<"Wrapped">>} :
                   data_result' = Some([call |-> "num_frames", result |-> outcome])
    /\ UNCHANGED <<data_sample_rate, data_frames, data_slice>>
    /\ UNCHANGED non_data_vars

\* frames[index + start]: a panic outside the buffer
FrameRead(frames, slice, index) ==
    LET start == IF slice # None THEN slice[1][1] ELSE 0
    IN  IF index + start < Len(frames)
        THEN <<"Some", frames[index + start + 1]>>
        ELSE <<"Panic">>

\* StaticSoundData::frame_at_index
FrameAtIndex(index) ==
    /\ LET n == NumFramesOf(data_frames, data_slice)
           read == FrameRead(data_frames, data_slice, index)
       IN  IF n[1] = "Ok"
           THEN data_result' =
                   Some([call |-> "frame_at_index", index |-> index,
                         result |-> IF index >= n[2] THEN <<"None">> ELSE read])
           ELSE \E outcome \in {<<"Panic">>, read} :
                   data_result' = Some([call |-> "frame_at_index", index |-> index,
                                        result |-> outcome])
    /\ UNCHANGED <<data_sample_rate, data_frames, data_slice>>
    /\ UNCHANGED non_data_vars

\* StaticSoundData::duration: num_frames() / sample_rate seconds, as
\* <<numerator, denominator>>
DataDuration ==
    /\ LET n == NumFramesOf(data_frames, data_slice)
       IN  IF n[1] = "Ok"
           THEN data_result' = Some([call |-> "duration",
                                     result |-> <<"Ok", <<n[2], data_sample_rate>>>>])
           ELSE \E outcome \in {<<"Panic">>, <<"Wrapped">>} :
                   data_result' = Some([call |-> "duration", result |-> outcome])
    /\ UNCHANGED <<data_sample_rate, data_frames, data_slice>>
    /\ UNCHANGED non_data_vars

(***************************************************************************)
(* Claims about the slice window.                                          *)
(***************************************************************************)
\* C8: the window stored by slice(region) satisfies
\* 0 <= start <= end <= frames.len(), so num_frames() <= frames.len() without
\* underflow and frame_at_index never reads outside the frame buffer.
C8_SliceWindowClamped ==
    /\ data_slice # None =>
          /\ 0 <= data_slice[1][1]
          /\ data_slice[1][1] <= data_slice[1][2]
          /\ data_slice[1][2] <= Len(data_frames)
    /\ data_result # None =>
          /\ data_result[1].result[1] \notin {"Panic", "Wrapped"}
          /\ data_result[1].call = "num_frames" =>
                data_result[1].result[2] <= Len(data_frames)

\* C17: num_frames() is end - start with a window (start, end) and
\* frames.len() without one; frame_at_index(i) is None exactly when
\* i >= num_frames() and otherwise the frame at buffer index start + i
\* (start = 0 without a window); duration() is num_frames() / sample_rate.
C17_EffectiveLength ==
    data_result # None =>
        LET r == data_result[1]
            start == IF data_slice # None THEN data_slice[1][1] ELSE 0
            n == IF data_slice # None THEN data_slice[1][2] - data_slice[1][1]
                 ELSE Len(data_frames)
        IN  /\ r.call = "num_frames" => r.result = <<"Ok", n>>
            /\ r.call = "frame_at_index" =>
                  IF r.index >= n
                  THEN r.result = <<"None">>
                  ELSE /\ start + r.index < Len(data_frames)
                       /\ r.result = <<"Some", data_frames[start + r.index + 1]>>
            /\ r.call = "duration" => r.result = <<"Ok", <<n, data_sample_rate>>>>

(***************************************************************************)
(* conductor Sound: the loaders.  A decoded sample is <<numerator,         *)
(* denominator>>; the samples of a file are numbered so that every one is  *)
(* different.                                                              *)
(***************************************************************************)
\* most packets of an ogg stream, most samples per channel of a packet
MaxPackets == 2
MaxPacketSamples == 2
\* most interleaved samples of a flac or wav stream
MaxFileSamples == 4

ChannelCounts == {1, 2, 3}
BitDepths == {8, 16}
FileSampleRates == {44100}

RECURSIVE PacketLengths(_)
PacketLengths(n) ==
    IF n = 0 THEN {<<>>}
    ELSE LET shorter == PacketLengths(n - 1)
         IN  shorter \cup {Append(p, k) : p \in {q \in shorter : Len(q) = n - 1},
                                          k \in 0..MaxPacketSamples}

\* an ogg stream: its channel count and the number of samples of each audio packet
OggFiles ==
    {[container |-> "ogg", sample_rate |-> sr, channels |-> c, packets |-> p] :
        sr \in FileSampleRates, c \in ChannelCounts, p \in PacketLengths(MaxPackets)}
\* a flac stream: channel count, bits per sample, number of interleaved samples
FlacFiles ==
    {[container |-> "flac", sample_rate |-> sr, channels |-> c, bits |-> b,
      length |-> n] :
        sr \in FileSampleRates, c \in ChannelCounts, b \in BitDepths, n \in 0..MaxFileSamples}
\* a wav stream: channel count, sample format, bits per sample, number of samples
WavFiles ==
    {[container |-> "wav", sample_rate |-> sr, channels |-> c, format |-> "Float",
      bits |-> 32, length |-> n] :
        sr \in FileSampleRates, c \in ChannelCounts, n \in 0..MaxFileSamples}
    \cup
    {[container |-> "wav", sample_rate |-> sr, channels |-> c, format |-> "Int",
      bits |-> b, length |-> n] :
        sr \in FileSampleRates, c \in ChannelCounts, b \in BitDepths, n \in 0..MaxFileSamples}

\* packet[channel][i] of the p-th packet of an ogg stream (channel and i from 0)
PacketSample(p, channel, i) == 100 * p + 10 * channel + i
\* the k-th interleaved sample of a flac or wav stream (k from 1)
StreamSample(k) == k

RECURSIVE Pow2(_)
Pow2(n) == IF n = 0 THEN 1 ELSE 2 * Pow2(n - 1)

\* StereoSample::new on f32 samples
StereoNew(left, right) == <<<<left, 1>>, <<right, 1>>>>
\* StereoSample::from_mono
StereoFromMono(value) == StereoNew(value, value)
\* StereoSample::from_i32: the integers scaled by 1 / 2^(bit_depth - 1)
StereoFromI32(left, right, bit_depth) ==
    <<<<left, Pow2(bit_depth - 1)>>, <<right, Pow2(bit_depth - 1)>>>>

\* Sound::new, as the value a loader returns
SoundOk(sr, stereo_samples) ==
    <<"Ok", [sample_rate |-> sr, samples |-> stereo_samples,
             duration |-> <<Len(stereo_samples), sr>>]>>
UnsupportedChannelConfiguration == <<"Err", "UnsupportedChannelConfiguration">>

\* the loop of from_ogg_file over the packets, from packet p on; the channel
\* count is looked at when a packet has been read
RECURSIVE OggPackets(_, _, _)
OggPackets(file, p, stereo_samples) ==
    IF p > Len(file.packets) THEN SoundOk(file.sample_rate, stereo_samples)
    ELSE LET num_channels == file.channels
             num_samples == file.packets[p]
         IN  IF num_channels = 1
             THEN OggPackets(file, p + 1, stereo_samples \o
                     [i \in 1..num_samples |-> StereoFromMono(PacketSample(p, 0, i - 1))])
             ELSE IF num_channels = 2
             THEN OggPackets(file, p + 1, stereo_samples \o
                     [i \in 1..num_samples |->
                         StereoNew(PacketSample(p, 0, i - 1), PacketSample(p, 1, i - 1))])
             ELSE UnsupportedChannelConfiguration

\* Sound::from_ogg_file
FromOggFile(file) == OggPackets(file, 1, <<>>)

\* while let (Some(left), Some(right)) = (iter.next(), iter.next()), from sample
\* k on: the pairs read, a last sample without a partner ending the loop
RECURSIVE SamplePairs(_, _, _)
SamplePairs(file, k, pairs) ==
    IF k + 1 > file.length THEN pairs
    ELSE SamplePairs(file, k + 2, Append(pairs, <<StreamSample(k), StreamSample(k + 1)>>))

\* Sound::from_flac_file
FromFlacFile(file) ==
    LET from_i32(l, r) == StereoFromI32(l, r, file.bits)
    IN  IF file.channels = 1
        THEN SoundOk(file.sample_rate,
                     [k \in 1..file.length |-> from_i32(StreamSample(k), StreamSample(k))])
        ELSE IF file.channels = 2
        THEN LET pairs == SamplePairs(file, 1, <<>>)
             IN  SoundOk(file.sample_rate,
                         [j \in DOMAIN pairs |-> from_i32(pairs[j][1], pairs[j][2])])
        ELSE UnsupportedChannelConfiguration

\* Sound::from_wav_file
FromWavFile(file) ==
    LET from_i32(l, r) == StereoFromI32(l, r, file.bits)
    IN  IF file.channels = 1
        THEN IF file.format = "Float"
             THEN SoundOk(file.sample_rate,
                          [k \in 1..file.length |-> StereoFromMono(StreamSample(k))])
             ELSE SoundOk(file.sample_rate,
                          [k \in 1..file.length |->
                              from_i32(StreamSample(k), StreamSample(k))])
        ELSE IF file.channels = 2
        THEN IF file.format = "Float"
             THEN LET pairs == SamplePairs(file, 1, <<>>)
                  IN  SoundOk(file.sample_rate,
                              [j \in DOMAIN pairs |-> StereoNew(pairs[j][1], pairs[j][2])])
             ELSE LET pairs == SamplePairs(file, 1, <<>>)
                  IN  SoundOk(file.sample_rate,
                              [j \in DOMAIN pairs |-> from_i32(pairs[j][1], pairs[j][2])])
        ELSE UnsupportedChannelConfiguration

LoaderInit ==
    /\ loaded_file = None
    /\ load_result = None
    /\ loaded_path = None
    /\ decoders_invoked = <<>>

LoadOgg(file) ==
    /\ loaded_file' = Some(file)
    /\ load_result' = Some(FromOggFile(file))
    /\ loaded_path' = None
    /\ decoders_invoked' = <<"ogg">>
    /\ UNCHANGED non_loader_vars

LoadFlac(file) ==
    /\ loaded_file' = Some(file)
    /\ load_result' = Some(FromFlacFile(file))
    /\ loaded_path' = None
    /\ decoders_invoked' = <<"flac">>
    /\ UNCHANGED non_loader_vars

LoadWav(file) ==
    /\ loaded_file' = Some(file)
    /\ load_result' = Some(FromWavFile(file))
    /\ loaded_path' = None
    /\ decoders_invoked' = <<"wav">>
    /\ UNCHANGED non_loader_vars

(***************************************************************************)
(* Claims about the loaders.                                               *)
(***************************************************************************)
\* the decoded samples of channel ch (from 0) of a file, in stream order
ChannelSamples(file, ch) ==
    IF file.container = "ogg"
    THEN LET RECURSIVE flat(_)
             flat(p) == IF p > Len(file.packets) THEN <<>>
                        ELSE [i \in 1..file.packets[p] |-> PacketSample(p, ch, i - 1)]
                             \o flat(p + 1)
         IN  flat(1)
    ELSE [j \in 1..(file.length \div file.channels) |->
             StreamSample((j - 1) * file.channels + ch + 1)]

\* the value a decoded sample stands for
SampleValue(file, x) ==
    IF file.container = "ogg" \/ (file.container = "wav" /\ file.format = "Float")
    THEN <<x, 1>>
    ELSE <<x, Pow2(file.bits - 1)>>

\* C10: for ogg, flac and wav a 1-channel source yields the frame (x, x) for
\* every input sample, a 2-channel source the frame (left, right) for every
\* sample pair in order, and any other channel count is rejected with
\* UnsupportedChannelConfiguration, no Sound being produced.
C10_ChannelReduction ==
    load_result # None =>
        LET file == loaded_file[1]
            result == load_result[1]
            left == ChannelSamples(file, 0)
            right == ChannelSamples(file, 1)
        IN  IF file.channels = 1
            THEN /\ result[1] = "Ok"
                 /\ result[2].samples =
                       [j \in DOMAIN left |->
                           <<SampleValue(file, left[j]), SampleValue(file, left[j])>>]
            ELSE IF file.channels = 2
            THEN /\ result[1] = "Ok"
                 /\ result[2].samples =
                       [j \in DOMAIN left |->
                           <<SampleValue(file, left[j]), SampleValue(file, right[j])>>]
            ELSE result = UnsupportedChannelConfiguration

(***************************************************************************)
(* conductor Sound: from_file.  A path is its file name, as the segments   *)
(* between the dots of the name (None for a path without a file name), and *)
(* what the file at that path holds.                                       *)
(***************************************************************************)
\* a segment that is not valid Unicode
NonUtf8Segments == {"ogg\\xFF"}
\* the last segments of the names
LastSegments == {"ogg", "flac", "wav", "OGG", "mp3", "", "ogg\\xFF"}

\* "song", "ogg", "song.<e>", ".<e>", "song.tar.<e>", "song.ogg.<e>"
FileNames ==
    {<<"song">>, <<"ogg">>}
    \cup {<<stem, e>> : stem \in {"song", ""}, e \in LastSegments}
    \cup {<<"song", middle, e>> : middle \in {"tar", "ogg"}, e \in LastSegments}

\* what the file holds: nothing (no such file), or a stream of one container
NoFile == [container |-> "none"]
FileContents ==
    {NoFile}
    \cup {f \in OggFiles : Len(f.packets) = 1 /\ f.packets[1] = 1}
    \cup {f \in FlacFiles : f.bits = 16 /\ f.length = 2}
    \cup {f \in WavFiles : f.format = "Int" /\ f.bits = 16 /\ f.length = 2}

Paths ==
    {[file_name |-> None, content |-> NoFile]}
    \cup {[file_name |-> Some(n), content |-> c] : n \in FileNames, c \in FileContents}

\* Path::extension: None without a file name, without a dot in the name, or
\* when the only dot starts the name; otherwise what follows the last dot
PathExtension(path) ==
    IF path.file_name = None THEN None
    ELSE LET segments == path.file_name[1]
         IN  IF Len(segments) = 1 THEN None
             ELSE IF Len(segments) = 2 /\ segments[1] = "" THEN None
             ELSE Some(segments[Len(segments)])

\* OsStr::to_str: None when the string is not valid Unicode
OsStrToStr(os_str) == IF os_str \in NonUtf8Segments THEN None ELSE Some(os_str)

IoError == <<"Err", "IoError">>
DecodeError == <<"Err", "DecodeError">>
UnsupportedAudioFileFormat == <<"Err", "UnsupportedAudioFileFormat">>

\* a from_*_file call on what the path holds: File::open and the reader's
\* constructor fail with `?` before any sample is read
Decode(decoder, content) ==
    IF content.container = "none" THEN IoError
    ELSE IF content.container # decoder THEN DecodeError
    ELSE IF decoder = "ogg" THEN FromOggFile(content)
    ELSE IF decoder = "flac" THEN FromFlacFile(content)
    ELSE FromWavFile(content)

\* ASCII lower case of the segments of the model
ToLowerCase(str) == IF str = "OGG" THEN "ogg" ELSE str

\* a from_file that matches the extension without regard to case
FromFileIgnoreCase(path) ==
    LET extension == PathExtension(path)
        extension_str == IF extension = None THEN None ELSE OsStrToStr(extension[1])
    IN  IF extension_str # None /\ ToLowerCase(extension_str[1]) \in {"ogg", "flac", "wav"}
        THEN [invoked |-> <<ToLowerCase(extension_str[1])>>,
              result |-> Decode(ToLowerCase(extension_str[1]), path.content)]
        ELSE [invoked |-> <<>>, result |-> UnsupportedAudioFileFormat]

\* Sound::from_file: the decoders it calls and what it returns
FromFile(path) ==
    LET extension == PathExtension(path)
        extension_str == IF extension = None THEN None ELSE OsStrToStr(extension[1])
    IN  IF extension_str # None /\ extension_str[1] = "ogg"
        THEN [invoked |-> <<"ogg">>, result |-> Decode("ogg", path.content)]
        ELSE IF extension_str # None /\ extension_str[1] = "flac"
        THEN [invoked |-> <<"flac">>, result |-> Decode("flac", path.content)]
        ELSE IF extension_str # None /\ extension_str[1] = "wav"
        THEN [invoked |-> <<"wav">>, result |-> Decode("wav", path.content)]
        ELSE [invoked |-> <<>>, result |-> UnsupportedAudioFileFormat]

LoadFile(path) ==
    /\ LET r == FromFile(path)
       IN  /\ load_result' = Some(r.result)
           /\ decoders_invoked' = r.invoked
    /\ loaded_path' = Some(path)
    /\ loaded_file' = Some(path.content)
    /\ UNCHANGED non_loader_vars

(***************************************************************************)
(* Claims about from_file.                                                 *)
(***************************************************************************)
\* C11: from_file dispatches on the path's extension only: a path whose
\* extension is exactly "ogg", "flac" or "wav" calls the decoder of that name,
\* once, and returns what it returns, whatever the file holds; a path with any
\* other extension, an extension that is not Unicode or no extension calls no
\* decoder and returns UnsupportedAudioFileFormat.
C11_FromFileDispatch ==
    loaded_path # None =>
        LET path == loaded_path[1]
            segments == IF path.file_name = None THEN <<>> ELSE path.file_name[1]
            has_extension == Len(segments) >= 3 \/ (Len(segments) = 2 /\ segments[1] # "")
            last == IF has_extension THEN segments[Len(segments)] ELSE "none"
        IN  IF has_extension /\ last \in {"ogg", "flac", "wav"}
            THEN /\ decoders_invoked = <<last>>
                 /\ load_result = Some(Decode(last, path.content))
            ELSE /\ decoders_invoked = <<>>
                 /\ load_result = Some(UnsupportedAudioFileFormat)

\* "song.OGG" holding a decodable ogg stream is rejected, no decoder called
C11_Witness ==
    /\ loaded_path # None
    /\ loaded_path[1].file_name = Some(<<"song", "OGG">>)
    /\ loaded_path[1].content.container = "ogg"
    /\ decoders_invoked = <<>>
    /\ load_result = Some(UnsupportedAudioFileFormat)

(***************************************************************************)
(* SoundId.  Several threads call SoundId::new; the fetch_add on           *)
(* NEXT_SOUND_INDEX is one atomic step of a call, the construction of the  *)
(* value it returns another.  The counter is a usize: it wraps only after  *)
(* more calls than any behaviour of the model makes.                       *)
(***************************************************************************)
IdThreads == {1, 2, 3}
\* number of SoundId::new calls in one behaviour
MaxSoundIds == 3
\* the durations and metadata (tempo) the callers pass
IdDurations == {1, 2}
IdMetadata == {None, Some(120)}

\* a fetch_add that returns the counter without advancing it
FetchAddStays(index) == index

\* NEXT_SOUND_INDEX.fetch_add(1, Ordering::Relaxed): the counter afterwards
FetchAdd(index) == index + 1

\* impl PartialEq for SoundId
SoundIdEq(a, b) == a.index = b.index

\* impl Hash for SoundId: the hasher is fed the index only
SoundIdHash(a) == <<a.index>>

IdInit ==
    /\ next_sound_index = 0
    /\ id_pc = [t \in IdThreads |-> "idle"]
    /\ id_index = [t \in IdThreads |-> 0]
    /\ sound_ids = <<>>

\* SoundId::new, first step: let index = NEXT_SOUND_INDEX.fetch_add(1, Relaxed)
SoundIdFetchAdd(t) ==
    /\ id_pc[t] = "idle"
    /\ Len(sound_ids) + Cardinality({u \in IdThreads : id_pc[u] = "fetched"}) < MaxSoundIds
    /\ id_index' = [id_index EXCEPT ![t] = next_sound_index]
    /\ next_sound_index' = FetchAdd(next_sound_index)
    /\ id_pc' = [id_pc EXCEPT ![t] = "fetched"]
    /\ UNCHANGED sound_ids
    /\ UNCHANGED non_id_vars

\* SoundId::new, second step: Self { index, duration, metadata }
SoundIdReturn(t, d, metadata) ==
    /\ id_pc[t] = "fetched"
    /\ sound_ids' = Append(sound_ids, [index |-> id_index[t], duration |-> d,
                                       metadata |-> metadata])
    /\ id_pc' = [id_pc EXCEPT ![t] = "idle"]
    /\ UNCHANGED <<next_sound_index, id_index>>
    /\ UNCHANGED non_id_vars

(***************************************************************************)
(* Claims about SoundId.                                                   *)
(***************************************************************************)
\* C13: the SoundIds of two different SoundId::new calls, whichever threads
\* made them and however the calls interleave, have different indices and so
\* compare unequal and hash differently whatever their duration and metadata;
\* the indices held by calls still under way differ from each other and from
\* every index returned.  Equality and hash look at the index only.
C13_SoundIdUnique ==
    /\ \A i, j \in DOMAIN sound_ids :
          /\ SoundIdEq(sound_ids[i], sound_ids[j]) <=> i = j
          /\ SoundIdHash(sound_ids[i]) = SoundIdHash(sound_ids[j]) <=> i = j
    /\ \A t, u \in IdThreads :
          (id_pc[t] = "fetched" /\ id_pc[u] = "fetched" /\ t # u) =>
              id_index[t] # id_index[u]
    /\ \A t \in IdThreads : \A i \in DOMAIN sound_ids :
          id_pc[t] = "fetched" => id_index[t] # sound_ids[i].index
    /\ \A a, b \in [index : 0..1, duration : IdDurations, metadata : IdMetadata] :
          SoundIdEq(a, b) <=> a.index = b.index

\* two calls that overlapped and returned in the opposite order of their
\* fetch_add, with the same duration and metadata: the ids are unequal
C13_Witness ==
    /\ Len(sound_ids) >= 2
    /\ sound_ids[1].index > sound_ids[2].index
    /\ sound_ids[1].duration = sound_ids[2].duration
    /\ sound_ids[1].metadata = sound_ids[2].metadata
    /\ ~SoundIdEq(sound_ids[1], sound_ids[2])

(***************************************************************************)
(* StaticSoundData: the builder methods.  A StaticSoundData is a record    *)
(* [sample_rate, frames, settings, slice]; frames is the Arc it holds, as  *)
(* [arc, buffer], so that two values share a buffer when their arc is the  *)
(* same.  The arguments are the values the impl Into conversions yield.    *)
(***************************************************************************)
\* the values of the fields of StaticSoundSettings
StartTimes == {<<"Immediate">>, <<"ClockTime", 4>>}
StartPositions == {Samples(0), Seconds(1)}
LoopRegions == {None, Some([start |-> Seconds(1), end |-> EndOfAudio])}
Volumes == {<<"Fixed", 1>>, <<"FromModulator", 7>>}
PlaybackRates == {<<"Fixed", 1>>, <<"Fixed", 2>>}
Pannings == {<<"Fixed", 5>>, <<"Fixed", 0>>}
OutputDestinations == {<<"MainTrack">>, <<"Track", 1>>}
FadeInTweens == {None, Some(<<"Tween", 10>>)}

StaticSoundSettings ==
    [start_time : StartTimes, start_position : StartPositions, reverse : BOOLEAN,
     loop_region : LoopRegions, volume : Volumes, playback_rate : PlaybackRates,
     panning : Pannings, output_destination : OutputDestinations,
     fade_in_tween : FadeInTweens]

\* StaticSoundSettings::default
DefaultSettings ==
    [start_time |-> <<"Immediate">>, start_position |-> Samples(0), reverse |-> FALSE,
     loop_region |-> None, volume |-> <<"Fixed", 1>>, playback_rate |-> <<"Fixed", 1>>,
     panning |-> <<"Fixed", 5>>, output_destination |-> <<"MainTrack">>,
     fade_in_tween |-> None]

\* the settings with_settings is called with
GivenSettings ==
    {DefaultSettings,
     [DefaultSettings EXCEPT !.reverse = TRUE, !.volume = <<"FromModulator", 7>>],
     [start_time |-> <<"ClockTime", 4>>, start_position |-> Seconds(1), reverse |-> TRUE,
      loop_region |-> Some([start |-> Seconds(1), end |-> EndOfAudio]),
      volume |-> <<"FromModulator", 7>>, playback_rate |-> <<"Fixed", 2>>,
      panning |-> <<"Fixed", 0>>, output_destination |-> <<"Track", 1>>,
      fade_in_tween |-> Some(<<"Tween", 10>>)]}

\* the regions slice is called with
GivenRegions ==
    {None,
     Some([start |-> Samples(1), end |-> EndOfAudio]),
     Some([start |-> Seconds(0), end |-> Custom(Samples(2))])}

\* a freshly loaded StaticSoundData
StaticSoundDataNew(sr, n) ==
    [sample_rate |-> sr,
     frames |-> [arc |-> 1, buffer |-> FramesOfLength(n)],
     settings |-> DefaultSettings,
     slice |-> None]

\* #[derive(Clone)]: every field is copied, the Arc by reference
Clone(self) == self

start_time(self, value) ==
    LET new == Clone(self) IN [new EXCEPT !.settings.start_time = value]

start_position(self, value) ==
    LET new == Clone(self) IN [new EXCEPT !.settings.start_position = value]

reverse(self, value) ==
    LET new == Clone(self) IN [new EXCEPT !.settings.reverse = value]

loop_region(self, value) ==
    LET new == Clone(self) IN [new EXCEPT !.settings.loop_region = value]

volume(self, value) ==
    LET new == Clone(self) IN [new EXCEPT !.settings.volume = value]

playback_rate(self, value) ==
    LET new == Clone(self) IN [new EXCEPT !.settings.playback_rate = value]

panning(self, value) ==
    LET new == Clone(self) IN [new EXCEPT !.settings.panning = value]

output_destination(self, value) ==
    LET new == Clone(self) IN [new EXCEPT !.settings.output_destination = value]

fade_in_tween(self, value) ==
    LET new == Clone(self) IN [new EXCEPT !.settings.fade_in_tween = value]

\* a with_settings that builds the value afresh, without the receiver's window
with_settings_without_slice(self, settings) ==
    [sample_rate |-> self.sample_rate, frames |-> self.frames,
     settings |-> settings, slice |-> None]

\* Self { settings, ..self.clone() }
with_settings(self, settings) ==
    LET new == Clone(self) IN [new EXCEPT !.settings = settings]

\* a slice taken inside the window the receiver already has
slice_within_window(self, region) ==
    LET new == Clone(self)
        base == IF self.slice = None THEN 0 ELSE self.slice[1][1]
        limit == IF self.slice = None THEN Len(self.frames.buffer) ELSE self.slice[1][2]
    IN  [new EXCEPT !.slice =
            IF region = None THEN None
            ELSE LET start == base + IntoSamples(region[1].start, self.sample_rate)
                     end == IF region[1].end = EndOfAudio THEN limit
                            ELSE base + IntoSamples(region[1].end[2], self.sample_rate)
                 IN  Some(<<start, end>>)]

\* StaticSoundData::slice
slice(self, region) ==
    LET new == Clone(self)
    IN  [new EXCEPT !.slice = SliceWindow(region, self.sample_rate, self.frames.buffer)]

BuilderInit ==
    /\ receiver = StaticSoundDataNew(1, 3)
    /\ returned = None
    /\ last_call = None

\* one call of a builder method on the receiver (&self), given what it returns
CallBuilder(method, argument, result) ==
    /\ returned' = Some(result)
    /\ last_call' = Some([method |-> method, argument |-> argument, self |-> receiver])
    /\ UNCHANGED receiver
    /\ UNCHANGED non_builder_vars

CallStartTime == \E v \in StartTimes : CallBuilder("start_time", v, start_time(receiver, v))
CallStartPosition ==
    \E v \in StartPositions : CallBuilder("start_position", v, start_position(receiver, v))
CallReverse == \E v \in BOOLEAN : CallBuilder("reverse", v, reverse(receiver, v))
CallLoopRegion ==
    \E v \in LoopRegions : CallBuilder("loop_region", v, loop_region(receiver, v))
CallVolume == \E v \in Volumes : CallBuilder("volume", v, volume(receiver, v))
CallPlaybackRate ==
    \E v \in PlaybackRates : CallBuilder("playback_rate", v, playback_rate(receiver, v))
CallPanning == \E v \in Pannings : CallBuilder("panning", v, panning(receiver, v))
CallOutputDestination ==
    \E v \in OutputDestinations :
        CallBuilder("output_destination", v, output_destination(receiver, v))
CallFadeInTween ==
    \E v \in FadeInTweens : CallBuilder("fade_in_tween", v, fade_in_tween(receiver, v))
CallWithSettings ==
    \E v \in GivenSettings : CallBuilder("with_settings", v, with_settings(receiver, v))
CallSlice == \E v \in GivenRegions : CallBuilder("slice", v, slice(receiver, v))

\* the caller goes on with the value returned: the chained calls of a builder
ChainBuilder ==
    /\ returned # None
    /\ receiver' = returned[1]
    /\ returned' = None
    /\ last_call' = None
    /\ UNCHANGED non_builder_vars

(***************************************************************************)
(* Claims about the builder methods.                                       *)
(***************************************************************************)
SettingsFields == {"start_time", "start_position", "reverse", "loop_region", "volume",
                   "playback_rate", "panning", "output_destination", "fade_in_tween"}

\* C14: a builder method leaves its receiver as it was and returns a value
\* with the receiver's sample rate and the receiver's frame buffer (the same
\* Arc) that differs from the receiver at most in the setting the method
\* names, which holds the argument: one field of the settings, all of the
\* settings for with_settings, the window for slice.
C14_BuilderChangesOnlyNamedSetting ==
    last_call # None =>
        LET call == last_call[1]
            new == returned[1]
        IN  /\ receiver = call.self
            /\ new.sample_rate = call.self.sample_rate
            /\ new.frames = call.self.frames
            /\ IF call.method = "slice"
               THEN /\ new.settings = call.self.settings
                    /\ new.slice = SliceWindow(call.argument, call.self.sample_rate,
                                               call.self.frames.buffer)
               ELSE IF call.method = "with_settings"
               THEN /\ new.settings = call.argument
                    /\ new.slice = call.self.slice
               ELSE /\ new.slice = call.self.slice
                    /\ new.settings[call.method] = call.argument
                    /\ \A f \in SettingsFields \ {call.method} :
                          new.settings[f] = call.self.settings[f]

\* with_settings on a sliced, reversed receiver: the window is kept, the
\* settings are the ones given
C14_Witness ==
    /\ last_call # None
    /\ last_call[1].method = "with_settings"
    /\ last_call[1].self.slice # None
    /\ last_call[1].self.settings.reverse
    /\ returned[1].settings = DefaultSettings
    /\ returned[1].slice = last_call[1].self.slice
    /\ receiver.settings.reverse

\* every window a StaticSoundData of the model can carry
Windows ==
    {None} \cup {Some(<<a, b>>) : a \in 0..(MaxDataFrames + 1),
                                  b \in 0..(MaxDataFrames + 1)}

\* C22: slice replaces the receiver's window instead of composing with it.
\* A None region clears the window, an EndOfAudio end becomes frames.len(),
\* the result is the same whatever window the receiver had, and slicing the
\* result again by the same region gives the same window.
C22_SliceReplacesWindow ==
    (last_call # None /\ last_call[1].method = "slice") =>
        LET self == last_call[1].self
            region == last_call[1].argument
            new == returned[1]
        IN  /\ region = None => new.slice = None
            /\ region # None =>
                /\ new.slice # None
                /\ new.slice[1][1] = IntoSamples(region[1].start, self.sample_rate)
                /\ region[1].end = EndOfAudio =>
                       new.slice[1][2] = Len(self.frames.buffer)
                /\ region[1].end # EndOfAudio =>
                       new.slice[1][2] = IntoSamples(region[1].end[2], self.sample_rate)
            /\ \A w \in Windows :
                   slice([self EXCEPT !.slice = w], region).slice = new.slice
            /\ slice(new, region).slice = new.slice

\* a receiver already cut to (0, 2) is sliced from frame 1 to the end of audio
C22_Witness ==
    /\ last_call # None
    /\ last_call[1].method = "slice"
    /\ last_call[1].self.slice = Some(<<0, 2>>)
    /\ last_call[1].argument = Some([start |-> Samples(1), end |-> EndOfAudio])
    /\ returned[1].slice = Some(<<1, 3>>)

(***************************************************************************)
(* CpalBackend: setup, start and drop.  A StreamManagerController is the   *)
(* number of the StreamManager::start call that returned it.               *)
(***************************************************************************)
\* number of start calls in one behaviour
MaxStarts == 3
\* number of pop_cpu_usage calls in one behaviour
MaxPops == 2

\* cpal devices: a name and the sample rate of the default output config,
\* None when default_output_config fails
Devices ==
    {[name |-> "speakers", config |-> Some(44100)],
     [name |-> "headset", config |-> Some(48000)],
     [name |-> "unplugged", config |-> None]}
BufferSizes == {<<"Default">>, <<"Fixed", 256>>, <<"Fixed", 512>>}
\* CpalBackendSettings
CpalBackendSettings == [device : {None} \cup {Some(d) : d \in Devices},
                        buffer_size : BufferSizes]
\* host.default_output_device()
DefaultOutputDevices == {None} \cup {Some(d) : d \in Devices}

\* State
Empty == <<"Empty">>
Uninitialized(device, config) == <<"Uninitialized", device, config>>
Initialized(stream_manager_controller) == <<"Initialized", stream_manager_controller>>

BackendInit ==
    /\ backend_life = "none"
    /\ state = Empty
    /\ custom_device = FALSE
    /\ buffer_size = <<"Default">>
    /\ cpu_usage_consumer = None
    /\ setup_result = None
    /\ stream_managers = <<>>
    /\ stop_calls = <<>>
    /\ start_outcomes = <<>>
    /\ pop_outcomes = <<>>

\* Backend::setup
BackendSetup(settings, default_output_device) ==
    /\ backend_life = "none"
    /\ LET chosen == IF settings.device # None THEN settings.device
                     ELSE default_output_device
       IN  IF chosen = None
           THEN /\ setup_result' = Some(<<"Err", "NoDefaultOutputDevice">>)
                /\ UNCHANGED <<backend_life, state, custom_device, buffer_size>>
           ELSE IF chosen[1].config = None
           THEN /\ setup_result' = Some(<<"Err", "DefaultStreamConfigError">>)
                /\ UNCHANGED <<backend_life, state, custom_device, buffer_size>>
           ELSE /\ setup_result' = Some(<<"Ok", chosen[1].config[1]>>)
                /\ backend_life' = "alive"
                /\ state' = Uninitialized(chosen[1].name, chosen[1].config[1])
                /\ custom_device' = (settings.device # None)
                /\ buffer_size' = settings.buffer_size
    /\ UNCHANGED <<cpu_usage_consumer, stream_managers, stop_calls, start_outcomes,
                   pop_outcomes>>
    /\ UNCHANGED non_backend_vars

\* a start that leaves the state as it found it
StateAfterStartUnchanged(taken, stream_manager_controller) == taken

\* self.state = State::Initialized { stream_manager_controller }
StateAfterStart(taken, stream_manager_controller) ==
    Initialized(stream_manager_controller)

\* Backend::start.  The panic of a later call either unwinds (the backend
\* lives on, its state the Empty that mem::replace left) or aborts the process.
BackendStart ==
    /\ backend_life = "alive"
    /\ Len(start_outcomes) < MaxStarts
    /\ LET taken == state          \* std::mem::replace(&mut self.state, State::Empty)
       IN  IF taken[1] = "Uninitialized"
           THEN LET stream_manager_controller == Len(stream_managers) + 1
                IN  /\ stream_managers' =
                          Append(stream_managers,
                                 [device |-> taken[2], config |-> taken[3],
                                  custom_device |-> custom_device,
                                  buffer_size |-> buffer_size])
                    /\ state' = StateAfterStart(taken, stream_manager_controller)
                    /\ cpu_usage_consumer' = Some(stream_manager_controller)
                    /\ start_outcomes' = Append(start_outcomes, "Ok")
                    /\ UNCHANGED backend_life
           ELSE /\ state' = Empty
                /\ start_outcomes' = Append(start_outcomes, "Panic")
                /\ \E panic \in {"unwind", "abort"} :
                      backend_life' = IF panic = "abort" THEN "aborted" ELSE backend_life
                /\ UNCHANGED <<cpu_usage_consumer, stream_managers>>
    /\ UNCHANGED <<custom_device, buffer_size, setup_result, stop_calls, pop_outcomes>>
    /\ UNCHANGED non_backend_vars

\* Drop for CpalBackend
BackendDrop ==
    /\ backend_life = "alive"
    /\ backend_life' = "dropped"
    /\ stop_calls' = IF state[1] = "Initialized" THEN Append(stop_calls, state[2])
                     ELSE stop_calls
    /\ UNCHANGED <<state, custom_device, buffer_size, cpu_usage_consumer, setup_result,
                   stream_managers, start_outcomes, pop_outcomes>>
    /\ UNCHANGED non_backend_vars

\* what the audio thread has left in the CPU-usage ring when it is polled
PolledUsages == {None, Some(50)}

\* an absent consumer answered with None
AsMutOrNone(consumer) ==
    IF consumer = None THEN <<"Ok", None>> ELSE <<"Ok", consumer[1]>>

\* self.cpu_usage_consumer.as_mut().unwrap()
AsMutUnwrap(consumer) ==
    IF consumer = None THEN <<"Panic">> ELSE <<"Ok", consumer[1]>>

\* CpalBackend::pop_cpu_usage on the backend value.  The Mutex is only ever
\* reached through get_mut, so it is never poisoned.  A panic unwinds or
\* aborts the process.
BackendPopCpuUsage ==
    /\ backend_life = "alive"
    /\ Len(pop_outcomes) < MaxPops
    /\ LET consumer == AsMutUnwrap(cpu_usage_consumer)
       IN  IF consumer[1] = "Panic"
           THEN /\ pop_outcomes' =
                      Append(pop_outcomes, [starts |-> start_outcomes,
                                            outcome |-> <<"Panic">>])
                /\ \E panic \in {"unwind", "abort"} :
                      backend_life' = IF panic = "abort" THEN "aborted" ELSE backend_life
           ELSE /\ \E usage \in PolledUsages :      \* try_pop()
                      pop_outcomes' =
                          Append(pop_outcomes, [starts |-> start_outcomes,
                                                outcome |-> <<"Return", usage>>])
                /\ UNCHANGED backend_life
    /\ UNCHANGED <<state, custom_device, buffer_size, cpu_usage_consumer, setup_result,
                   stream_managers, stop_calls, start_outcomes>>
    /\ UNCHANGED non_backend_vars

(***************************************************************************)
(* Claims about the backend lifecycle.                                     *)
(***************************************************************************)
\* C15: of the start calls on a backend exactly the first one succeeds; it
\* finds the state Uninitialized, leaves it Initialized and creates the one
\* stream manager and the one CPU-usage consumer of the backend; every later
\* call panics and creates no stream manager.
C15_StartOnce ==
    /\ \A i \in DOMAIN start_outcomes : (start_outcomes[i] = "Ok") <=> (i = 1)
    /\ Len(stream_managers) = (IF start_outcomes = <<>> THEN 0 ELSE 1)
    /\ (cpu_usage_consumer # None) <=> (start_outcomes # <<>>)
    /\ (backend_life = "alive" /\ start_outcomes = <<>>) => state[1] = "Uninitialized"
    /\ (backend_life = "alive" /\ start_outcomes = <<"Ok">>) => state = Initialized(1)

\* a second and a third start, both rejected, one stream manager
C15_Witness ==
    /\ start_outcomes = <<"Ok", "Panic", "Panic">>
    /\ Len(stream_managers) = 1
    /\ backend_life = "alive"

\* C16: once start has succeeded the state of a live backend is Initialized
\* with the controller that start created, whatever calls follow, and a
\* dropped backend has called stop() on that controller exactly once; a
\* backend that was never started has called no stop().
C16_DropStopsStream ==
    /\ (backend_life = "alive" /\ start_outcomes # <<>>) => state = Initialized(1)
    /\ backend_life = "dropped" =>
          stop_calls = (IF start_outcomes # <<>> THEN <<1>> ELSE <<>>)

\* C23: the CPU-usage consumer is there exactly from the first successful
\* start onwards.  pop_cpu_usage panics when no start has succeeded before
\* it (never answering None for the missing consumer), and returns what
\* try_pop gives, without a panic, once a start has succeeded, also after
\* later starts were rejected.
C23_ConsumerFromFirstStart ==
    /\ (cpu_usage_consumer = None) <=> (\A i \in DOMAIN start_outcomes :
                                            start_outcomes[i] # "Ok")
    /\ \A i \in DOMAIN pop_outcomes :
          LET call == pop_outcomes[i]
              started == \E j \in DOMAIN call.starts : call.starts[j] = "Ok"
          IN  /\ call.starts = <<>> => call.outcome = <<"Panic">>
              /\ started => call.outcome[1] = "Return"
              /\ (call.outcome = <<"Panic">>) <=> ~started

\* a pop before start panics and unwinds; after the start and a rejected
\* second start a pop returns a usage value
C23_Witness ==
    /\ Len(pop_outcomes) = 2
    /\ pop_outcomes[1] = [starts |-> <<>>, outcome |-> <<"Panic">>]
    /\ pop_outcomes[2] = [starts |-> <<"Ok", "Panic">>,
                          outcome |-> <<"Return", Some(50)>>]
    /\ backend_life = "alive"

(***************************************************************************)
(* Specifications: one per component, the other components standing idle.  *)
(***************************************************************************)
\* every component in its state after construction
Init ==
    /\ MixerInit
    /\ CpuInit
    /\ RateInit(100)
    /\ SodInit
    /\ SoundInit(1, <<>>, None)
    /\ DataInit(1, 0)
    /\ LoaderInit
    /\ IdInit /\ BuilderInit /\ BackendInit

\* the audio thread handling commands, the control thread emptying the channels
NextCommands ==
    \/ \E id \in SubTrackIds, gain \in Gains : AddSubTrack(id, gain)
    \/ \E index \in TrackIndices, number \in EffectNumbers : AddEffect(index, number)
    \/ \E id \in SubTrackIds : RemoveSubTrack(id)
    \/ \E index \in TrackIndices, number \in EffectNumbers :
          RemoveEffect(<<index, number>>)
    \/ ReceiveTrack
    \/ ReceiveEffectSlot

SpecCommands == Init /\ [][NextCommands]_vars

\* the audio thread rendering: sounds add input, tracks come and go, frames are mixed
NextRender ==
    \/ \E id \in SubTrackIds, gain \in Gains : AddSubTrack(id, gain)
    \/ \E id \in SubTrackIds : RemoveSubTrack(id)
    \/ \E index \in TrackIndices, frame \in InputFrames : AddInput(index, frame)
    \/ Process

SpecRender == Init /\ [][NextRender]_vars

\* the device callback and the control thread reading the CPU usage
NextCpu ==
    \/ RendererProcess
    \/ PopCpuUsage

SpecCpu == Init /\ [][NextCpu]_vars

\* the mock backend of change_sample_rate.rs
InitRate ==
    /\ MixerInit /\ CpuInit /\ SodInit /\ SoundInit(1, <<>>, None) /\ DataInit(1, 0)
    /\ LoaderInit
    /\ IdInit /\ BuilderInit /\ BackendInit
    /\ \E sr \in SampleRates : RateInit(sr)

NextRate ==
    \/ AddTestEffect
    \/ OnStartProcessing
    \/ \E sr \in SampleRates : SetSampleRate(sr)
    \/ BackendProcess
    \/ \E i \in DOMAIN effects : PopDt(i)

SpecRate == InitRate /\ [][NextRate]_vars

\* owners creating and dropping SendOnDrop wrappers, consumers polling
NextSendOnDrop ==
    \/ \E w \in Wrappers, data \in Payloads : SendOnDropNew(w, data)
    \/ \E w \in Wrappers : SendOnDropDrop(w)
    \/ \E w \in Wrappers : SendOnDropConsumerPop(w)

SpecSendOnDrop == Init /\ [][NextSendOnDrop]_vars

\* a sound with any cooldown setting, started and updated
InitCooldown ==
    /\ MixerInit /\ CpuInit /\ RateInit(100) /\ SodInit /\ DataInit(1, 0)
    /\ LoaderInit
    /\ IdInit /\ BuilderInit /\ BackendInit
    /\ \E cd \in Cooldowns : SoundInit(1, <<>>, cd)

NextCooldown ==
    \/ StartCooldown
    \/ \E dt \in DtValues : UpdateCooldown(dt)

SpecCooldown == InitCooldown /\ [][NextCooldown]_vars

\* a sound over any sample buffer, sampled at any position
InitCubic ==
    /\ MixerInit /\ CpuInit /\ RateInit(100) /\ SodInit /\ DataInit(1, 0)
    /\ LoaderInit
    /\ IdInit /\ BuilderInit /\ BackendInit
    /\ \E sr \in SoundSampleRates, smp \in SampleBuffers(MaxSamples) :
          SoundInit(sr, smp, None)

NextCubic == \E numerator \in PositionNumerators : GetSample(numerator)

SpecCubic == InitCubic /\ [][NextCubic]_vars

\* a StaticSoundData over any buffer, sliced and queried
InitData ==
    /\ MixerInit /\ CpuInit /\ RateInit(100) /\ SodInit /\ SoundInit(1, <<>>, None)
    /\ LoaderInit
    /\ IdInit /\ BuilderInit /\ BackendInit
    /\ \E sr \in DataSampleRates, n \in 0..MaxDataFrames : DataInit(sr, n)

NextData ==
    \/ \E region \in OptionalRegions : Slice(region)
    \/ NumFrames
    \/ \E index \in 0..(MaxDataFrames + 1) : FrameAtIndex(index)
    \/ DataDuration

SpecData == InitData /\ [][NextData]_vars

\* the loaders given any file
NextLoader ==
    \/ \E file \in OggFiles : LoadOgg(file)
    \/ \E file \in FlacFiles : LoadFlac(file)
    \/ \E file \in WavFiles : LoadWav(file)

SpecLoader == Init /\ [][NextLoader]_vars

\* from_file given any path
NextFromFile == \E path \in Paths : LoadFile(path)

SpecFromFile == Init /\ [][NextFromFile]_vars

\* threads making SoundIds
NextSoundId ==
    \/ \E t \in IdThreads : SoundIdFetchAdd(t)
    \/ \E t \in IdThreads, d \in IdDurations, metadata \in IdMetadata :
          SoundIdReturn(t, d, metadata)

SpecSoundId == Init /\ [][NextSoundId]_vars

\* builder methods called on a StaticSoundData, singly and chained
NextBuilder ==
    \/ CallStartTime
    \/ CallStartPosition
    \/ CallReverse
    \/ CallLoopRegion
    \/ CallVolume
    \/ CallPlaybackRate
    \/ CallPanning
    \/ CallOutputDestination
    \/ CallFadeInTween
    \/ CallWithSettings
    \/ CallSlice
    \/ ChainBuilder

SpecBuilder == Init /\ [][NextBuilder]_vars

\* a backend set up, started (once or more often) and dropped
NextBackend ==
    \/ \E settings \in CpalBackendSettings, device \in DefaultOutputDevices :
          BackendSetup(settings, device)
    \/ BackendStart
    \/ BackendPopCpuUsage
    \/ BackendDrop

SpecBackend == Init /\ [][NextBackend]_vars

====
